---- MODULE Spec2Model ----
(***************************************************************************)
(* Crown Point Chess Club backend.                                         *)
(*                                                                         *)
(* The repository holds two HTTP servers over a relational store:          *)
(*   impl = "pg"     src/server.js          (PostgreSQL, pool.query)       *)
(*   impl = "mysql"  src/unnamed/part_001   (MySQL, pool.execute)          *)
(* Both are modelled; impl is fixed at start-up and never changes.         *)
(*                                                                         *)
(* The handlers are translated statement by statement.  The schema, the    *)
(* stored function record_match_result and the stored procedures           *)
(* AddPlayer / RecordMatch are not among the source files: they are        *)
(* modelled from the specification (sections 3, 4 and 5) and are marked    *)
(* as such where they are defined.                                         *)
(***************************************************************************)
EXTENDS Integers, Sequences, FiniteSets, TLC

VARIABLES
    impl,       \* which server runs: "pg" or "mysql"
    players,    \* table players: player id -> row
    nextId,     \* next value of the players id sequence
    matches,    \* table matches: the ledger, in insertion order
    points0,    \* history: player id -> points the row was inserted with
    removed,    \* history: ids whose removal was answered with success
    reqs,       \* the record-match requests in flight, one per handler slot
    last,       \* history: the latest single-statement request, the players
                \* table before it, and its response
    archives,       \* table monthly_archives: archive id -> row
    nextArchiveId,  \* next value of the archives id sequence
    champions,      \* part_001: the players whose column is_champion is TRUE
    areqs,          \* the create-archive requests in flight, one per slot
    placed,         \* history: the players placed in an archive whose
                    \* creation was answered with success
    badges,         \* table tournament_winners: winner id -> row
    nextWinnerId,   \* next value of the tournament_winners id sequence
    flagged,        \* part_001: the players whose column
                    \* is_tournament_winner is TRUE
    today,          \* the current date of the store
    nodeEnv,        \* process.env.NODE_ENV
    auth            \* the latest decision of authenticateAdmin

vars == <<impl, players, nextId, matches, points0, removed, reqs, last,
          archives, nextArchiveId, champions, areqs, placed,
          badges, nextWinnerId, flagged, today, nodeEnv, auth>>

(***************************************************************************)
(* Bounds of the model.                                                    *)
(***************************************************************************)
MaxPlayers == 2
MaxMatches == 2
MaxInFlight == 2

(***************************************************************************)
(* Program constants.                                                      *)
(***************************************************************************)
MinPoints == 0
MaxPoints == 49
DefaultPoints == 0
DefaultPointsExchanged == 1
TierWidth == 10

(***************************************************************************)
(* JavaScript values of a request body.  A value is a record               *)
(*   [t, v, pad]   t  the typeof tag ("undefined", "null", "number",       *)
(*                    "fraction" for a non-integral number, "string")      *)
(*                 v  number: its value (fraction: v + 1/2)                *)
(*                    string: 0 for no characters besides blanks,          *)
(*                            n > 0 for the decimal numeral n,             *)
(*                            n < 0 for a word that is no numeral          *)
(*                 pad  string: surrounded by blanks                       *)
(***************************************************************************)
Undefined == [t |-> "undefined", v |-> 0, pad |-> FALSE]
Null == [t |-> "null", v |-> 0, pad |-> FALSE]
Num(n) == [t |-> "number", v |-> n, pad |-> FALSE]
Frac(n) == [t |-> "fraction", v |-> n, pad |-> FALSE]
Str(n) == [t |-> "string", v |-> n, pad |-> FALSE]
Padded(n) == [t |-> "string", v |-> n, pad |-> TRUE]

\* !x
Falsy(x) ==
    \/ x.t \in {"undefined", "null"}
    \/ x.t = "number" /\ x.v = 0
    \/ x.t = "string" /\ x.v = 0 /\ ~x.pad

\* ToNumber(x) is NaN
IsNaN(x) ==
    \/ x.t = "undefined"
    \/ x.t = "string" /\ x.v < 0

\* x < n and x > n for an integer n (false when x converts to NaN)
JsLess(x, n) == ~IsNaN(x) /\ x.v < n
JsGreater(x, n) == ~IsNaN(x) /\ (x.v > n \/ (x.t = "fraction" /\ x.v >= n))

\* x === y
StrictEq(x, y) == x.t = y.t /\ x.v = y.v /\ x.pad = y.pad

\* x.trim() of a string
Trim(x) == [x EXCEPT !.pad = FALSE]

\* const { p = d } = req.body
Default(x, d) == IF x.t = "undefined" THEN d ELSE x

(***************************************************************************)
(* Values as the drivers hand them to the store.                           *)
(***************************************************************************)
NoInt == -1000

\* a parameter compared with, or assigned to, an integer column: the integer,
\* NULL, or a conversion error
IsSqlNull(x) == x.t \in {"undefined", "null"}
IsSqlInt(x) ==
    \/ x.t = "number"
    \/ x.t = "string" /\ x.v > 0
SqlInt(x) == IF IsSqlInt(x) THEN x.v ELSE NoInt

\* a parameter compared with, or assigned to, a text column
SqlText(x) == IF x.t = "number" THEN Str(x.v) ELSE x

(***************************************************************************)
(* Responses.  success is "true", "false" or "absent" (no such field).     *)
(***************************************************************************)
\* details is "absent" or "message": the message of the underlying error
Resp(st, su, er) == [status |-> st, success |-> su, error |-> er, details |-> "absent"]
NoResp == Resp(0, "absent", "")
Ok == Resp(200, "true", "")

\* handleError(res, error, message) of server.js; the catch blocks of part_001
\* details: process.env.NODE_ENV === 'development' ? error.message : undefined
Details == IF nodeEnv = "development" THEN "message" ELSE "absent"
handleError(message) ==
    IF impl = "pg"
    THEN [Resp(500, "false", message) EXCEPT !.details = Details]
    ELSE Resp(500, "absent", message)

\* res.status(code).json({ success: false, error }) / res.status(code).json({ error })
Reject(code, message) ==
    IF impl = "pg" THEN Resp(code, "false", message) ELSE Resp(code, "absent", message)

(***************************************************************************)
(* The store.                                                              *)
(***************************************************************************)
Ids == 1..MaxPlayers

\* tier(points): bucketed ranges of points
Tier(p) == p \div TierWidth

PlayerRow(name, points) ==
    [name |-> name, points |-> points, tier |-> Tier(points), active |-> TRUE]

PlayerIds == DOMAIN players
NameTaken(name) == \E i \in PlayerIds : players[i].name = name
IdOfName(name) == CHOOSE i \in PlayerIds : players[i].name = name

\* the range constraint of players.points
PointsAllowed(p) == p >= MinPoints /\ p <= MaxPoints

Put(f, k, val) == [x \in DOMAIN f \cup {k} |-> IF x = k THEN val ELSE f[x]]
Drop(f, k) == [x \in DOMAIN f \ {k} |-> f[x]]

\* the players an archive row places
Places(row) == {row.first_place_player_id, row.second_place_player_id,
                row.third_place_player_id}

Referenced(i) ==
    \/ \E k \in 1..Len(matches) : matches[k].winner_id = i \/ matches[k].loser_id = i
    \/ \E a \in DOMAIN archives : i \in Places(archives[a])

(***************************************************************************)
(* Requests and responses in flight.                                       *)
(***************************************************************************)
NoRow == [id |-> 0, name |-> Undefined, points |-> 0, tier |-> 0]

\* SELECT player_id as id, name, points, tier (server.js); part_001 selects
\* name, points, tier
Info(i) ==
    [id |-> IF impl = "pg" THEN i ELSE 0, name |-> players[i].name,
     points |-> players[i].points, tier |-> players[i].tier]

\* after is history: the rows of winner and loser as the transaction of this
\* request left them
Idle ==
    [pc |-> "idle", byName |-> FALSE, w |-> Undefined, l |-> Undefined,
     d |-> Undefined, wn |-> Undefined, ln |-> Undefined,
     gotW |-> FALSE, gotL |-> FALSE, winner |-> NoRow, loser |-> NoRow,
     resp |-> NoResp, appended |-> 0, dbfail |-> FALSE, gone |-> FALSE,
     after |-> <<>>]

Slots == DOMAIN reqs
Free(s) == reqs[s].pc \in {"idle", "done"}

\* the handler answers: its locals are dropped, the request and the response stay
Done(r, resp) ==
    [r EXCEPT !.pc = "done", !.resp = resp, !.wn = Undefined, !.ln = Undefined,
              !.gotW = FALSE, !.gotL = FALSE]
\* the catch block; dbfail records that the store itself failed
Failed(r, message, dbOk) == [Done(r, handleError(message)) EXCEPT !.dbfail = ~dbOk]

\* no badge, the first day, production mode, no request authenticated
NoAuth == [op |-> "none", token |-> "none", passed |-> FALSE]
NoRegistry ==
    /\ badges = <<>>
    /\ nextWinnerId = 1
    /\ flagged = {}
    /\ today = 1
    /\ nodeEnv = "production"
    /\ auth = NoAuth

StoreUnchanged == UNCHANGED <<players, nextId, matches, points0>>
RegistryUnchanged == UNCHANGED <<badges, nextWinnerId, flagged, today, nodeEnv, auth>>
ArchivesUnchanged ==
    /\ UNCHANGED <<archives, nextArchiveId, champions, areqs, placed>>
    /\ RegistryUnchanged
NoLast ==
    [op |-> "none", req |-> <<>>, before |-> <<>>, resp |-> NoResp, rows |-> <<>>]
Latest(op, req, resp) ==
    [op |-> op, req |-> req, before |-> players, resp |-> resp, rows |-> <<>>]
\* the same for a query: rows is the list it answers with
Listing(op, resp, rows) ==
    [op |-> op, req |-> <<>>, before |-> players, resp |-> resp, rows |-> rows]

\* only the latest response is kept: an answered request leaves its slot
\* with the next step of any request
Forget(rq) == [t \in DOMAIN rq |-> IF rq[t].pc = "done" THEN Idle ELSE rq[t]]
Step(s, r) == reqs' = [Forget(reqs) EXCEPT ![s] = r]
Frame == UNCHANGED <<impl, removed>> /\ ArchivesUnchanged /\ last' = NoLast

(***************************************************************************)
(* POST /api/admin/players                                                 *)
(***************************************************************************)
NameInputs == {Undefined, Num(1), Str(0), Padded(0), Str(1), Str(2)}
PointsInputs == {Undefined, Null, Num(-1), Num(0), Num(49), Num(50), Frac(10),
                 Str(10), Str(-1)}
EmailInputs == {Undefined, Str(-1)}

\* the requests tried, <<name, email, points, the store answers>>: every name
\* with the default points, every points value with one name that passes, the
\* points the store accepts with another, a request without email, and one
\* the store fails
CreateInputs ==
    {<<n, Str(-1), Undefined, TRUE>> : n \in NameInputs}
        \cup {<<Str(1), Str(-1), p, TRUE>> : p \in PointsInputs}
        \cup {<<Str(2), Str(-1), p, TRUE>> : p \in {Num(49), Str(10)}}
        \cup {<<Str(1), Undefined, Undefined, TRUE>>, <<Str(1), Str(-1), Undefined, FALSE>>}

\* server.js: !name || name.trim() === '' (name.trim of a non-string throws)
NameMissing(name) == Falsy(name) \/ (name.t = "string" /\ Trim(name) = Str(0))

\* server.js: points < 0 || points > 49
PointsOutOfRangeBuggy(points) == JsLess(points, MinPoints)
PointsOutOfRange(points) == JsLess(points, MinPoints) \/ JsGreater(points, MaxPoints)

\* INSERT INTO players (name, points) of either store: the response and the
\* table afterwards
InsertPlayer(name, points, req, resp) ==
    /\ players' = Put(players, nextId, PlayerRow(name, points))
    /\ points0' = Put(points0, nextId, points)
    /\ nextId' = nextId + 1
    /\ last' = Latest("createPlayer", req, resp)
    /\ UNCHANGED matches

Answer(op, req, resp) ==
    /\ last' = Latest(op, req, resp)
    /\ UNCHANGED <<players, nextId, matches, points0>>

\* the catch block of the handler: error.code === '23505' (server.js),
\* error.code === 'ER_DUP_ENTRY' (part_001)
UniqueViolation == IF impl = "pg" THEN "23505" ELSE "ER_DUP_ENTRY"
CreateErrorBuggy(code) == handleError("Failed to add player")
CreateError(code) ==
    IF code = UniqueViolation
    THEN Reject(400, "Player name already exists")
    ELSE handleError("Failed to add player")

PgCreatePlayer(name, email, pointsIn, dbOk) ==
    LET points == Default(pointsIn, Num(DefaultPoints))
        req == <<name, email, pointsIn, dbOk>>
    IN
    /\ impl = "pg"
    /\ UNCHANGED <<impl, removed>> /\ ArchivesUnchanged /\ reqs' = Forget(reqs)
    /\ IF NameMissing(name)
       THEN Answer("createPlayer", req, Reject(400, "Player name is required"))
       ELSE IF name.t # "string"
       THEN Answer("createPlayer", req, handleError("Failed to add player"))
       ELSE IF PointsOutOfRange(points)
       THEN Answer("createPlayer", req, Reject(400, "Points must be between 0 and 49"))
       ELSE IF ~dbOk \/ (~IsSqlNull(points) /\ ~IsSqlInt(points))
       THEN Answer("createPlayer", req, handleError("Failed to add player"))
       ELSE IF IsSqlNull(points) \/ ~PointsAllowed(SqlInt(points))
       THEN Answer("createPlayer", req, handleError("Failed to add player"))
       ELSE IF NameTaken(Trim(name))
       THEN Answer("createPlayer", req, CreateError(UniqueViolation))
       ELSE IF nextId > MaxPlayers
       THEN FALSE
       ELSE InsertPlayer(Trim(name), SqlInt(points), req, Ok)

\* AddPlayer: the name is required, non-empty after trimming
NameAllowed(name) == name.t = "string" /\ Trim(name) # Str(0)

\* part_001: !name, then CALL AddPlayer(name, email, points); the driver refuses
\* an undefined bind parameter, so a request without email fails
MysqlCreatePlayer(name, email, pointsIn, dbOk) ==
    LET points == Default(pointsIn, Num(DefaultPoints))
        req == <<name, email, pointsIn, dbOk>>
    IN
    /\ impl = "mysql"
    /\ UNCHANGED <<impl, removed>> /\ ArchivesUnchanged /\ reqs' = Forget(reqs)
    /\ IF Falsy(name)
       THEN Answer("createPlayer", req, Reject(400, "Player name is required"))
       ELSE IF ~dbOk \/ email.t = "undefined"
       THEN Answer("createPlayer", req, handleError("Failed to add player"))
       ELSE IF ~NameAllowed(SqlText(name))
       THEN Answer("createPlayer", req, handleError("Failed to add player"))
       ELSE IF ~IsSqlInt(points) \/ ~PointsAllowed(SqlInt(points))
       THEN Answer("createPlayer", req, handleError("Failed to add player"))
       ELSE IF NameTaken(SqlText(name))
       THEN Answer("createPlayer", req, CreateError(UniqueViolation))
       ELSE IF nextId > MaxPlayers
       THEN FALSE
       ELSE InsertPlayer(SqlText(name), SqlInt(points), req, Ok)

(***************************************************************************)
(* DELETE /api/admin/players/:id                                           *)
(***************************************************************************)
IdParams == {Str(1), Str(2), Str(-1)}

\* parseInt(req.params.id) and isNaN of it
ParseInt(x) == IF x.t = "string" /\ x.v > 0 THEN x.v ELSE NoInt

\* server.js: DELETE FROM players WHERE player_id = $1 RETURNING name.  A row
\* that match rows reference is either kept by the store (the statement
\* fails) or deleted, the match rows staying as they are.
PgRemovePlayer(id, dbOk, restrict) ==
    LET playerId == ParseInt(id) IN
    /\ impl = "pg"
    /\ UNCHANGED impl /\ ArchivesUnchanged /\ reqs' = Forget(reqs)
    /\ IF playerId = NoInt
       THEN Answer("removePlayer", <<id, dbOk>>, Reject(400, "Invalid player ID")) /\ UNCHANGED removed
       ELSE IF ~dbOk \/ (playerId \in PlayerIds /\ Referenced(playerId) /\ restrict)
       THEN Answer("removePlayer", <<id, dbOk>>, handleError("Failed to remove player"))
            /\ UNCHANGED removed
       ELSE IF playerId \notin PlayerIds
       THEN Answer("removePlayer", <<id, dbOk>>, Reject(404, "Player not found")) /\ UNCHANGED removed
       ELSE /\ players' = Drop(players, playerId)
            /\ removed' = removed \cup {playerId}
            /\ last' = Latest("removePlayer", <<id, dbOk>>, Ok)
            /\ UNCHANGED <<nextId, matches, points0>>

\* part_001: UPDATE players SET is_active = FALSE WHERE id = ?
DeactivateBuggy(playerId) == players
Deactivate(playerId) == [players EXCEPT ![playerId].active = FALSE]

\* part_001: DELETE /api/admin/players/:id
MysqlRemovePlayer(id, dbOk) ==
    LET playerId == SqlInt(id) IN
    /\ impl = "mysql"
    /\ UNCHANGED impl /\ ArchivesUnchanged /\ reqs' = Forget(reqs)
    /\ IF ~dbOk
       THEN Answer("removePlayer", <<id, dbOk>>, handleError("Failed to remove player"))
            /\ UNCHANGED removed
       ELSE IF playerId \notin PlayerIds
       THEN Answer("removePlayer", <<id, dbOk>>, Reject(404, "Player not found")) /\ UNCHANGED removed
       ELSE /\ players' = Deactivate(playerId)
            /\ removed' = removed \cup {playerId}
            /\ last' = Latest("removePlayer", <<id, dbOk>>, Ok)
            /\ UNCHANGED <<nextId, matches, points0>>

(***************************************************************************)
(* Recording a match in the store: the stored function record_match_result *)
(* (PostgreSQL) and the stored procedure RecordMatch (MySQL).              *)
(***************************************************************************)
Min(a, b) == IF a <= b THEN a ELSE b
Max(a, b) == IF a >= b THEN a ELSE b

\* winner.points += delta, clamped to at most 49
WinnerAfter(w, d) == Min(MaxPoints, w + d)

\* loser.points -= delta, clamped to at least 0
LoserAfterBuggy(l, d) == Max(MinPoints + 1, l - d)
LoserAfter(l, d) == Max(MinPoints, l - d)

\* winner and loser exist, are active and differ
CanRecord(wid, lid) ==
    /\ wid \in PlayerIds /\ lid \in PlayerIds /\ wid # lid
    /\ players[wid].active /\ players[lid].active

\* the row appended for winner wid, loser lid: the tiers before the match and
\* the change applied to each side (columns of the PostgreSQL table), x the
\* single column points_exchanged of the MySQL table.  delta is history: the
\* delta the transaction was run with.
MatchRow(wid, lid, wAfter, lAfter, x, d) ==
    [winner_id |-> wid, loser_id |-> lid,
     winner_tier_before |-> players[wid].tier,
     loser_tier_before |-> players[lid].tier,
     winner_points_change |-> IF impl = "pg" THEN wAfter - players[wid].points ELSE 0,
     loser_points_change |-> IF impl = "pg" THEN lAfter - players[lid].points ELSE 0,
     points_exchanged |-> IF impl = "pg" THEN 0 ELSE x,
     delta |-> d]

\* the players table after the two updates, each tier recomputed from the
\* new points
PlayersAfterStaleTier(wid, lid, wAfter, lAfter) ==
    [players EXCEPT ![wid].points = wAfter, ![lid].points = lAfter]
PlayersAfterWinnerOnly(wid, lid, wAfter, lAfter) ==
    [players EXCEPT ![wid].points = wAfter, ![wid].tier = Tier(wAfter)]
PlayersAfter(wid, lid, wAfter, lAfter) ==
    [players EXCEPT ![wid].points = wAfter, ![wid].tier = Tier(wAfter),
                    ![lid].points = lAfter, ![lid].tier = Tier(lAfter)]

\* one transaction: both updates and the insert, or nothing; the rows are
\* locked, so the points read are those the updates are applied to
ApplyMatchStale(wid, lid, d, x) ==
    LET wAfter == WinnerAfter(points0[wid], d)
        lAfter == LoserAfter(points0[lid], d)
    IN  /\ players' = PlayersAfter(wid, lid, wAfter, lAfter)
        /\ matches' = Append(matches, MatchRow(wid, lid, wAfter, lAfter, x, d))
ApplyMatch(wid, lid, d, x) ==
    LET wAfter == WinnerAfter(players[wid].points, d)
        lAfter == LoserAfter(players[lid].points, d)
    IN  /\ players' = PlayersAfter(wid, lid, wAfter, lAfter)
        /\ matches' = Append(matches, MatchRow(wid, lid, wAfter, lAfter, x, d))

\* the row of player i right after the transaction that gives it points p
RowAfter(i, p) == [id |-> i, name |-> players[i].name, points |-> p, tier |-> Tier(p)]
Snapshots(wid, lid, d) ==
    <<RowAfter(wid, WinnerAfter(players[wid].points, d)),
      RowAfter(lid, LoserAfter(players[lid].points, d))>>

\* whether the transaction commits: the range constraint holds of both rows
Commits(wid, lid, d) ==
    /\ PointsAllowed(WinnerAfter(players[wid].points, d))
    /\ PointsAllowed(LoserAfter(players[lid].points, d))

(***************************************************************************)
(* GET /api/player/:id/stats: a match row as the history of player id      *)
(* shows it.                                                               *)
(***************************************************************************)
PointChange(m, id) ==
    IF impl = "pg"
    THEN IF m.winner_id = id THEN m.winner_points_change ELSE m.loser_points_change
    ELSE IF m.winner_id = id THEN m.points_exchanged ELSE 0 - m.points_exchanged

OpponentTier(m, id) ==
    IF m.winner_id = id THEN m.loser_tier_before ELSE m.winner_tier_before

(***************************************************************************)
(* POST /api/admin/matches                                                 *)
(***************************************************************************)
\* history: the request names, by id, a player removed before it arrived
WasRemoved(a, b) == SqlInt(a) \in removed \/ SqlInt(b) \in removed

\* SELECT name FROM players WHERE player_id = $1
NameOfId(x) ==
    IF SqlInt(x) \in PlayerIds THEN players[SqlInt(x)].name ELSE Undefined

\* the request bodies tried: <<winnerId, loserId, winnerName, loserName>>
PgMatchInputs ==
    {<<Num(1), Num(2), Undefined, Undefined>>, <<Num(2), Num(1), Undefined, Undefined>>,
     <<Num(1), Str(1), Undefined, Undefined>>, <<Num(1), Num(9), Undefined, Undefined>>,
     <<Num(1), Str(-1), Undefined, Undefined>>, <<Undefined, Num(2), Undefined, Undefined>>,
     <<Undefined, Undefined, Str(1), Str(2)>>, <<Undefined, Undefined, Str(2), Str(1)>>,
     <<Undefined, Undefined, Str(1), Str(1)>>, <<Undefined, Undefined, Num(1), Str(1)>>,
     <<Undefined, Undefined, Str(1), Str(-1)>>, <<Undefined, Num(2), Str(1), Undefined>>}

\* if (finalWinnerName === finalLoserName)
SameName(a, b) == StrictEq(a, b)

\* server.js lines 334-365 up to the first await
PgBeginMatch(s, in) ==
    LET r == [Idle EXCEPT !.pc = "call",
                          !.gone = ~(~Falsy(in[3]) /\ ~Falsy(in[4]))
                                   /\ WasRemoved(in[1], in[2])]
    IN
    /\ impl = "pg" /\ Free(s)
    /\ Frame /\ StoreUnchanged
    /\ IF ~Falsy(in[3]) /\ ~Falsy(in[4])
       THEN LET n == [r EXCEPT !.byName = TRUE, !.w = in[3], !.l = in[4],
                              !.wn = in[3], !.ln = in[4]]
            IN  IF SameName(in[3], in[4])
                THEN Step(s,
                        Done(n, Reject(400, "Winner and loser cannot be the same player")))
                ELSE Step(s, n)
       ELSE IF ~Falsy(in[1]) /\ ~Falsy(in[2])
       THEN Step(s, [r EXCEPT !.pc = "lookupW", !.w = in[1], !.l = in[2]])
       ELSE Step(s,
                Done([r EXCEPT !.w = in[1], !.l = in[2]],
                     Reject(400, "Either winner/loser names or IDs are required")))

\* server.js line 344
PgLookupWinner(s, dbOk) ==
    LET r == reqs[s] IN
    /\ impl = "pg" /\ r.pc = "lookupW"
    /\ Frame /\ StoreUnchanged
    /\ IF ~dbOk \/ ~IsSqlInt(r.w)
       THEN Step(s, Failed(r, "Failed to record match", dbOk))
       ELSE Step(s, [r EXCEPT !.pc = "lookupL", !.wn = NameOfId(r.w)])

\* server.js lines 345-365
PgLookupLoser(s, dbOk) ==
    LET r == reqs[s]
        ln == NameOfId(r.l)
    IN
    /\ impl = "pg" /\ r.pc = "lookupL"
    /\ Frame /\ StoreUnchanged
    /\ IF ~dbOk \/ ~IsSqlInt(r.l)
       THEN Step(s, Failed(r, "Failed to record match", dbOk))
       ELSE IF r.wn = Undefined \/ ln = Undefined
       THEN Step(s, Done(r, Reject(400, "One or both players not found")))
       ELSE IF SameName(r.wn, ln)
       THEN Step(s,
                Done(r, Reject(400, "Winner and loser cannot be the same player")))
       ELSE Step(s, [r EXCEPT !.pc = "call", !.ln = ln])

\* the message record_match_result(winner_name, loser_name) returns
Message(prefix, text) == [prefix |-> prefix, text |-> text]
RecordMatchResult(wname, lname) ==
    IF ~NameTaken(wname) \/ ~NameTaken(lname)
    THEN Message("Error:", "Error: player not found")
    ELSE IF ~CanRecord(IdOfName(wname), IdOfName(lname))
    THEN Message("Error:", "Error: players cannot play this match")
    ELSE Message("", "Match recorded")

\* message.startsWith('Error:')
MessageIsErrorBuggy(message) == FALSE
MessageIsError(message) == message.prefix = "Error:"

\* server.js lines 368-376: SELECT record_match_result($1, $2)
PgCallRecordMatch(s, dbOk) ==
    LET r == reqs[s]
        wname == SqlText(r.wn)
        lname == SqlText(r.ln)
        message == RecordMatchResult(wname, lname)
        recorded == message.prefix # "Error:"
        q == IF recorded
             THEN [r EXCEPT !.appended = r.appended + 1,
                            !.after = Snapshots(IdOfName(wname), IdOfName(lname),
                                                DefaultPointsExchanged)]
             ELSE r
    IN
    /\ impl = "pg" /\ r.pc = "call"
    /\ Frame /\ UNCHANGED <<nextId, points0>>
    /\ IF ~dbOk
       THEN /\ Step(s, Failed(r, "Failed to record match", dbOk))
            /\ UNCHANGED <<players, matches>>
       ELSE /\ IF recorded
               THEN /\ Len(matches) < MaxMatches
                    /\ ApplyMatch(IdOfName(wname), IdOfName(lname),
                                  DefaultPointsExchanged, 0)
               ELSE UNCHANGED <<players, matches>>
            /\ IF MessageIsError(message)
               THEN Step(s, Done(q, Reject(400, message.text)))
               ELSE Step(s, [q EXCEPT !.pc = "fetch"])

\* SELECT player_id as id, name, points, tier FROM players WHERE name = $1
InfoOfName(x) ==
    IF NameTaken(SqlText(x)) THEN Info(IdOfName(SqlText(x))) ELSE NoRow

\* the answer once both rows of Promise.all are there (server.js lines 384-389)
Fetched(r) == IF r.gotW /\ r.gotL THEN Done(r, Ok) ELSE r

\* server.js line 380
PgFetchWinner(s, dbOk) ==
    LET r == reqs[s] IN
    /\ impl = "pg" /\ r.pc = "fetch" /\ ~r.gotW
    /\ Frame /\ StoreUnchanged
    /\ IF ~dbOk
       THEN Step(s, Failed(r, "Failed to record match", dbOk))
       ELSE Step(s,
                Fetched([r EXCEPT !.gotW = TRUE, !.winner = InfoOfName(r.wn)]))

\* server.js line 381
PgFetchLoser(s, dbOk) ==
    LET r == reqs[s] IN
    /\ impl = "pg" /\ r.pc = "fetch" /\ ~r.gotL
    /\ Frame /\ StoreUnchanged
    /\ IF ~dbOk
       THEN Step(s, Failed(r, "Failed to record match", dbOk))
       ELSE Step(s,
                Fetched([r EXCEPT !.gotL = TRUE, !.loser = InfoOfName(r.ln)]))

\* the request bodies tried: <<winnerId, loserId, pointsExchanged>>
MysqlMatchInputs ==
    {<<Num(1), Num(2), Undefined>>, <<Num(2), Num(1), Undefined>>,
     <<Num(1), Num(2), Num(2)>>,
     <<Num(1), Num(1), Undefined>>, <<Num(1), Str(1), Undefined>>,
     <<Num(1), Num(9), Undefined>>, <<Undefined, Num(2), Undefined>>}

\* if (winnerId === loserId)
SameId(a, b) == StrictEq(a, b)

\* part_001 lines 211-219
MysqlBeginMatch(s, in) ==
    LET r == [Idle EXCEPT !.pc = "call", !.w = in[1], !.l = in[2], !.d = in[3],
                          !.gone = WasRemoved(in[1], in[2])]
    IN
    /\ impl = "mysql" /\ Free(s)
    /\ Frame /\ StoreUnchanged
    /\ IF Falsy(in[1]) \/ Falsy(in[2])
       THEN Step(s,
                Done(r, Reject(400, "Winner and loser IDs are required")))
       ELSE IF SameId(in[1], in[2])
       THEN Step(s,
                Done(r, Reject(400, "Winner and loser cannot be the same player")))
       ELSE Step(s, r)

\* what the procedure may store in points_exchanged: the delta it was given
\* or the change it applied to either side
Exchanged(wid, lid, d) ==
    {d, WinnerAfter(players[wid].points, d) - players[wid].points,
        players[lid].points - LoserAfter(players[lid].points, d)}

\* part_001 lines 222-225: CALL RecordMatch(?, ?, ?, ?); the procedure raises
\* an error for players it does not accept
MysqlCallRecordMatch(s, dbOk) ==
    LET r == reqs[s]
        wid == SqlInt(r.w)
        lid == SqlInt(r.l)
        d == SqlInt(Default(r.d, Num(DefaultPointsExchanged)))
    IN
    /\ impl = "mysql" /\ r.pc = "call"
    /\ Frame /\ UNCHANGED <<nextId, points0>>
    /\ IF ~dbOk \/ ~CanRecord(wid, lid) \/ ~Commits(wid, lid, d)
       THEN /\ Step(s, Failed(r, "Failed to record match", dbOk))
            /\ UNCHANGED <<players, matches>>
       ELSE /\ Len(matches) < MaxMatches
            /\ \E x \in Exchanged(wid, lid, d) : ApplyMatch(wid, lid, d, x)
            /\ Step(s, [r EXCEPT !.pc = "fetch", !.appended = r.appended + 1,
                                  !.after = Snapshots(wid, lid, d)])

\* SELECT name, points, tier FROM players WHERE id = ?
InfoOfId(x) == IF SqlInt(x) \in PlayerIds THEN Info(SqlInt(x)) ELSE NoRow

\* part_001 lines 228-231
MysqlFetchWinner(s, dbOk) ==
    LET r == reqs[s] IN
    /\ impl = "mysql" /\ r.pc = "fetch" /\ ~r.gotW
    /\ Frame /\ StoreUnchanged
    /\ IF ~dbOk
       THEN Step(s, Failed(r, "Failed to record match", dbOk))
       ELSE Step(s, [r EXCEPT !.gotW = TRUE, !.winner = InfoOfId(r.w)])

\* part_001 lines 232-242
MysqlFetchLoser(s, dbOk) ==
    LET r == reqs[s] IN
    /\ impl = "mysql" /\ r.pc = "fetch" /\ r.gotW
    /\ Frame /\ StoreUnchanged
    /\ IF ~dbOk
       THEN Step(s, Failed(r, "Failed to record match", dbOk))
       ELSE Step(s, Done([r EXCEPT !.loser = InfoOfId(r.l)], Ok))

(***************************************************************************)
(* Spec: the store starts empty and one client issues every kind of        *)
(* request, each after the answer to the one before.                       *)
(***************************************************************************)
Init ==
    /\ impl \in {"pg", "mysql"}
    /\ players = <<>>
    /\ nextId = 1
    /\ matches = <<>>
    /\ points0 = <<>>
    /\ removed = {}
    /\ reqs = [s \in {1} |-> Idle]
    /\ last = NoLast
    /\ archives = <<>>
    /\ nextArchiveId = 1
    /\ champions = {}
    /\ areqs = <<>>
    /\ placed = {}
    /\ NoRegistry

Answered == \A s \in Slots : Free(s)

Next ==
    \/ Answered /\ \E in \in CreateInputs : PgCreatePlayer(in[1], in[2], in[3], in[4])
    \/ Answered /\ \E in \in CreateInputs : MysqlCreatePlayer(in[1], in[2], in[3], in[4])
    \/ Answered /\ \E id \in IdParams, dbOk, restrict \in BOOLEAN :
            PgRemovePlayer(id, dbOk, restrict)
    \/ Answered /\ \E id \in IdParams, dbOk \in BOOLEAN : MysqlRemovePlayer(id, dbOk)
    \/ \E s \in Slots, in \in PgMatchInputs : PgBeginMatch(s, in)
    \/ \E s \in Slots, in \in MysqlMatchInputs : MysqlBeginMatch(s, in)
    \/ \E s \in Slots, dbOk \in BOOLEAN : PgLookupWinner(s, dbOk)
    \/ \E s \in Slots, dbOk \in BOOLEAN : PgLookupLoser(s, dbOk)
    \/ \E s \in Slots, dbOk \in BOOLEAN : PgCallRecordMatch(s, dbOk)
    \/ \E s \in Slots, dbOk \in BOOLEAN : PgFetchWinner(s, dbOk)
    \/ \E s \in Slots, dbOk \in BOOLEAN : PgFetchLoser(s, dbOk)
    \/ \E s \in Slots, dbOk \in BOOLEAN : MysqlCallRecordMatch(s, dbOk)
    \/ \E s \in Slots, dbOk \in BOOLEAN : MysqlFetchWinner(s, dbOk)
    \/ \E s \in Slots, dbOk \in BOOLEAN : MysqlFetchLoser(s, dbOk)

Spec == Init /\ [][Next]_vars

(***************************************************************************)
(* SpecConc: MaxInFlight record-match handlers run concurrently over a     *)
(* store that holds four players; a player may be removed meanwhile.       *)
(***************************************************************************)
ConcPoints ==
    {<<a, b, 10, 8>> : a \in {MaxPoints, 10}, b \in {MinPoints, 8}}

InitConc ==
    /\ impl \in {"pg", "mysql"}
    /\ \E pts \in ConcPoints :
        /\ players = [i \in 1..4 |-> PlayerRow(Str(i), pts[i])]
        /\ points0 = [i \in 1..4 |-> pts[i]]
    /\ nextId = 5
    /\ matches = <<>>
    /\ removed = {}
    /\ reqs = [s \in 1..MaxInFlight |-> Idle]
    /\ last = NoLast
    /\ archives = <<>>
    /\ nextArchiveId = 1
    /\ champions = {}
    /\ areqs = <<>>
    /\ placed = {}
    /\ NoRegistry

PgConcInputs ==
    {<<Num(1), Num(2), Undefined, Undefined>>, <<Num(2), Num(1), Undefined, Undefined>>,
     <<Num(3), Num(4), Undefined, Undefined>>, <<Undefined, Undefined, Str(1), Str(3)>>}

MysqlConcInputs ==
    {<<Num(1), Num(2), Undefined>>, <<Num(2), Num(1), Undefined>>,
     <<Num(3), Num(4), Undefined>>, <<Num(1), Num(3), Num(2)>>}

NextConc ==
    \/ \E dbOk, restrict \in BOOLEAN : PgRemovePlayer(Str(1), dbOk, restrict)
    \/ \E dbOk \in BOOLEAN : MysqlRemovePlayer(Str(1), dbOk)
    \/ \E s \in Slots, in \in PgConcInputs : PgBeginMatch(s, in)
    \/ \E s \in Slots, in \in MysqlConcInputs : MysqlBeginMatch(s, in)
    \/ \E s \in Slots, dbOk \in BOOLEAN : PgLookupWinner(s, dbOk)
    \/ \E s \in Slots, dbOk \in BOOLEAN : PgLookupLoser(s, dbOk)
    \/ \E s \in Slots, dbOk \in BOOLEAN : PgCallRecordMatch(s, dbOk)
    \/ \E s \in Slots, dbOk \in BOOLEAN : PgFetchWinner(s, dbOk)
    \/ \E s \in Slots, dbOk \in BOOLEAN : PgFetchLoser(s, dbOk)
    \/ \E s \in Slots, dbOk \in BOOLEAN : MysqlCallRecordMatch(s, dbOk)
    \/ \E s \in Slots, dbOk \in BOOLEAN : MysqlFetchWinner(s, dbOk)
    \/ \E s \in Slots, dbOk \in BOOLEAN : MysqlFetchLoser(s, dbOk)

SpecConc == InitConc /\ [][NextConc]_vars

(***************************************************************************)
(* GET /api/leaderboard and GET /api/leaderboard/top3                      *)
(***************************************************************************)
\* SELECT winner_id, COUNT(*) FROM matches GROUP BY winner_id, and the same
\* for loser_id (server.js); COALESCE(.., 0) for a player without rows
WinCount(i) == Cardinality({k \in 1..Len(matches) : matches[k].winner_id = i})
LossCount(i) == Cardinality({k \in 1..Len(matches) : matches[k].loser_id = i})

\* the columns players.wins and players.losses of part_001, as RecordMatch
\* keeps them
StoredWins(i) == WinCount(i)
StoredLosses(i) == LossCount(i)

Wins(i) == IF impl = "pg" THEN WinCount(i) ELSE StoredWins(i)
Losses(i) == IF impl = "pg" THEN LossCount(i) ELSE StoredLosses(i)

\* a / b rounded to the nearest integer, halves away from zero (a, b >= 0)
RoundDiv(a, b) == (2 * a + b) \div (2 * b)

\* the digits after the point that a division keeps: NUMERIC division of
\* PostgreSQL (20 for these operands; the model keeps 6), the four added
\* digits of a MySQL division
PgScale == 1000000
MysqlScale == 10000

\* win_percentage, in hundredths of a percent:
\*   ROUND((wins::NUMERIC / (wins + losses)) * 100, 2)   server.js
\*   ROUND((wins / (wins + losses)) * 100, 2)            part_001
WinPercentageIntegerDivision(w, l) ==
    IF w + l = 0 THEN 0 ELSE (w \div (w + l)) * 10000
WinPercentage(w, l) ==
    IF w + l = 0 THEN 0
    ELSE LET scale == IF impl = "pg" THEN PgScale ELSE MysqlScale
             ratio == RoundDiv(w * scale, w + l)
         IN  RoundDiv(ratio, scale \div 10000)

\* FROM players p (server.js); FROM players WHERE is_active = TRUE (part_001)
Listed == {i \in PlayerIds : impl = "pg" \/ players[i].active}

\* the rows of tournament_winners of one player
BadgesOf(playerId) == {w \in DOMAIN badges : badges[w].player_id = playerId}

\* FROM players p ... LEFT JOIN tournament_winners tw ON p.player_id =
\* tw.player_id (server.js): a joined row <<player, badge>> for each badge of
\* a player, and <<player, 0>> for a player without badge; part_001 reads
\* the rows of players only
Joined ==
    IF impl = "pg"
    THEN {e \in Listed \X DOMAIN badges : e[2] \in BadgesOf(e[1])}
            \cup {<<i, 0>> : i \in {j \in Listed : BadgesOf(j) = {}}}
    ELSE {<<i, 0>> : i \in Listed}

\* the players of a sequence of joined rows
PlayersOf(ord) == [k \in DOMAIN ord |-> ord[k][1]]

\* names as the store's collation compares them
NameLess(a, b) == a.v < b.v

\* row i comes strictly before row j under the ORDER BY of the leaderboard:
\*   p.points DESC, COALESCE(wins.win_count, 0) DESC, p.name ASC   server.js
\*   points DESC, wins DESC, win_percentage DESC                   part_001
LeaderboardBefore(i, j) ==
    \/ players[i].points > players[j].points
    \/ /\ players[i].points = players[j].points
       /\ \/ Wins(i) > Wins(j)
          \/ /\ Wins(i) = Wins(j)
             /\ IF impl = "pg"
                THEN NameLess(players[i].name, players[j].name)
                ELSE WinPercentage(Wins(i), Losses(i))
                        > WinPercentage(Wins(j), Losses(j))

\* the same for the podium:
\*   p.points DESC, p.name ASC      server.js
\*   points DESC, wins DESC         part_001
Top3Before(i, j) ==
    \/ players[i].points > players[j].points
    \/ /\ players[i].points = players[j].points
       /\ IF impl = "pg"
          THEN NameLess(players[i].name, players[j].name)
          ELSE Wins(i) > Wins(j)

\* the orders in which a query may return the listed rows: every order that
\* its ORDER BY does not exclude (rows it leaves tied come in any order)
Orders(S) ==
    {ord \in [1..Cardinality(S) -> S] :
        \A a, b \in 1..Cardinality(S) : a # b => ord[a] # ord[b]}
LeaderboardOrders ==
    {ord \in Orders(Joined) :
        \A a, b \in DOMAIN ord : a < b => ~LeaderboardBefore(ord[b][1], ord[a][1])}
Top3Orders ==
    {ord \in Orders(Joined) :
        \A a, b \in DOMAIN ord : a < b => ~Top3Before(ord[b][1], ord[a][1])}
\* ORDER BY p.name ASC (server.js), ORDER BY name ASC (part_001)
AdminOrders ==
    {ord \in Orders(Joined) :
        \A a, b \in DOMAIN ord : a < b =>
            ~NameLess(players[ord[b][1]].name, players[ord[a][1]].name)}

\* LIMIT 3
Limit3(ord) == SubSeq(ord, 1, Min(3, Len(ord)))

\* CASE WHEN champions.player_id IS NOT NULL (server.js, over the rows of
\* monthly_archives); the column is_champion (part_001)
IsChampion(i) ==
    IF impl = "pg"
    THEN \E a \in DOMAIN archives : i \in Places(archives[a])
    ELSE i \in champions

\* CASE WHEN tw.player_id IS NOT NULL (server.js); the column
\* is_tournament_winner (part_001)
IsTournamentWinner(i) == IF impl = "pg" THEN BadgesOf(i) # {} ELSE i \in flagged

\* the place of joined row e in an order
Place(ord, e) == CHOOSE k \in DOMAIN ord : ord[k] = e

\* one row of the leaderboard
LeaderboardRow(i, rank) ==
    [id |-> i, name |-> players[i].name, points |-> players[i].points,
     tier |-> players[i].tier, wins |-> Wins(i), losses |-> Losses(i),
     win_percentage |-> WinPercentage(Wins(i), Losses(i)),
     is_champion |-> IsChampion(i), is_tournament_winner |-> IsTournamentWinner(i),
     rank |-> rank]

\* one row of the podium (server.js adds rank)
Top3Row(i, rank) ==
    [id |-> i, name |-> players[i].name, points |-> players[i].points,
     tier |-> players[i].tier, is_champion |-> IsChampion(i),
     is_tournament_winner |-> IsTournamentWinner(i),
     rank |-> IF impl = "pg" THEN rank ELSE 0]

\* one row of the admin player list
AdminRow(i) ==
    [id |-> i, name |-> players[i].name, points |-> players[i].points,
     tier |-> players[i].tier, is_champion |-> IsChampion(i),
     is_tournament_winner |-> IsTournamentWinner(i)]

\* GET /api/leaderboard.  rank is ROW_NUMBER() OVER (ORDER BY ..) over the
\* joined rows, the rows come by the ORDER BY of the statement with the same
\* keys: rows the keys leave tied are numbered in one order and returned in
\* one order, and the two need not be the same.
GetLeaderboard(dbOk) ==
    /\ UNCHANGED <<impl, removed, reqs>> /\ StoreUnchanged /\ ArchivesUnchanged
    /\ IF ~dbOk
       THEN last' = Listing("leaderboard", handleError("Failed to fetch leaderboard"), <<>>)
       ELSE \E ord \in LeaderboardOrders, numbered \in LeaderboardOrders :
                last' = Listing("leaderboard", Ok,
                                [k \in DOMAIN ord |->
                                    LeaderboardRow(ord[k][1], Place(numbered, ord[k]))])

GetTop3(dbOk) ==
    /\ UNCHANGED <<impl, removed, reqs>> /\ StoreUnchanged /\ ArchivesUnchanged
    /\ IF ~dbOk
       THEN last' = Listing("top3", handleError("Failed to fetch top 3"), <<>>)
       ELSE \E ord \in Top3Orders, numbered \in Top3Orders :
                last' = Listing("top3", Ok,
                                [k \in DOMAIN Limit3(ord) |->
                                    Top3Row(ord[k][1], Place(numbered, ord[k]))])

\* GET /api/admin/players
GetAdminPlayers(dbOk) ==
    /\ UNCHANGED <<impl, removed, reqs>> /\ StoreUnchanged /\ ArchivesUnchanged
    /\ IF ~dbOk
       THEN last' = Listing("adminPlayers", handleError("Failed to fetch players"), <<>>)
       ELSE \E ord \in AdminOrders :
                last' = Listing("adminPlayers", Ok,
                                [k \in DOMAIN ord |-> AdminRow(ord[k][1])])

(***************************************************************************)
(* SpecBoard: the store holds three players and the ledger of the games    *)
(* recorded so far, at most MaxGames of them; the leaderboard and the      *)
(* podium are read, and a player may be removed.                           *)
(***************************************************************************)
MaxGames == 3

BoardPoints == {<<MaxPoints, MaxPoints, 10>>, <<10, 10, 10>>}
BoardGames == {<<1, 2>>, <<2, 3>>, <<3, 2>>}

RECURSIVE Histories(_)
Histories(n) ==
    IF n = 0 THEN {<<>>}
    ELSE Histories(n - 1)
            \cup {Append(h, g) : h \in {x \in Histories(n - 1) : Len(x) = n - 1},
                                 g \in BoardGames}

\* the points after the games of h, recorded one after the other with the
\* default delta, starting from pts
RECURSIVE PointsAfterGames(_, _)
PointsAfterGames(pts, h) ==
    IF h = <<>> THEN pts
    ELSE LET p == PointsAfterGames(pts, SubSeq(h, 1, Len(h) - 1))
             g == h[Len(h)]
         IN  [p EXCEPT ![g[1]] = WinnerAfter(p[g[1]], DefaultPointsExchanged),
                       ![g[2]] = LoserAfter(p[g[2]], DefaultPointsExchanged)]

\* the row of game k of h
RowOfGame(im, pts, h, k) ==
    LET p == PointsAfterGames(pts, SubSeq(h, 1, k - 1))
        q == PointsAfterGames(pts, SubSeq(h, 1, k))
        g == h[k]
    IN  [winner_id |-> g[1], loser_id |-> g[2],
         winner_tier_before |-> Tier(p[g[1]]),
         loser_tier_before |-> Tier(p[g[2]]),
         winner_points_change |-> IF im = "pg" THEN q[g[1]] - p[g[1]] ELSE 0,
         loser_points_change |-> IF im = "pg" THEN q[g[2]] - p[g[2]] ELSE 0,
         points_exchanged |-> IF im = "pg" THEN 0 ELSE DefaultPointsExchanged,
         delta |-> DefaultPointsExchanged]

InitBoard ==
    /\ impl \in {"pg", "mysql"}
    /\ \E pts \in BoardPoints, h \in Histories(MaxGames) :
        /\ points0 = [i \in 1..3 |-> pts[i]]
        /\ matches = [k \in 1..Len(h) |-> RowOfGame(impl, pts, h, k)]
        /\ players = [i \in 1..3 |-> PlayerRow(Str(i), PointsAfterGames(pts, h)[i])]
    /\ nextId = 4
    /\ removed = {}
    /\ reqs = [s \in {1} |-> Idle]
    /\ last = NoLast
    /\ archives = <<>>
    /\ nextArchiveId = 1
    /\ champions = {}
    /\ areqs = <<>>
    /\ placed = {}
    /\ NoRegistry

NextBoard ==
    \/ \E dbOk \in BOOLEAN : GetLeaderboard(dbOk)
    \/ \E dbOk \in BOOLEAN : GetTop3(dbOk)
    \/ \E dbOk, restrict \in BOOLEAN : PgRemovePlayer(Str(3), dbOk, restrict)
    \/ \E dbOk \in BOOLEAN : MysqlRemovePlayer(Str(3), dbOk)

SpecBoard == InitBoard /\ [][NextBoard]_vars

(***************************************************************************)
(* POST /api/admin/archives and DELETE /api/admin/archives/:id             *)
(***************************************************************************)
MaxArchives == 2

\* a create-archive handler: the request (month, ids), the points its SELECT
\* returned, its response.  History: free, whether the month had no row when
\* its SELECT ran; taken, whether the month had a row when its INSERT ran;
\* made, the id of the row it inserted (0 for none); dbfail, whether the
\* store itself failed.
NoArchiveRequest ==
    [pc |-> "idle", month |-> Undefined, ids |-> <<>>, pts |-> <<>>,
     resp |-> NoResp, free |-> FALSE, taken |-> FALSE, made |-> 0,
     dbfail |-> FALSE]
ArchiveSlots == DOMAIN areqs
ArchiveRequest(in) ==
    [NoArchiveRequest EXCEPT !.month = in[1], !.ids = <<in[2], in[3], in[4]>>]
Answers(r, resp) == [r EXCEPT !.pc = "done", !.resp = resp, !.pts = <<>>]
Breaks(r, resp) == [Answers(r, resp) EXCEPT !.dbfail = TRUE]

\* only the latest response is kept: an answered request leaves its slot
\* with the next step of any request; a request takes the first slot left
Left(rq) ==
    [t \in DOMAIN rq |-> IF rq[t].pc = "done" THEN NoArchiveRequest ELSE rq[t]]
FirstLeft(s) ==
    /\ areqs[s].pc \in {"idle", "done"}
    /\ \A t \in ArchiveSlots : t < s => areqs[t].pc \notin {"idle", "done"}
ArchiveStep(s, r) == areqs' = [Left(areqs) EXCEPT ![s] = r]

\* what an archive step leaves alone
ArchiveFrame ==
    /\ UNCHANGED <<impl, removed, reqs>> /\ StoreUnchanged /\ RegistryUnchanged
    /\ last' = NoLast

\* new Set(winners).size !== winners.length
HasDuplicate(ids) == \E a, b \in DOMAIN ids : a # b /\ StrictEq(ids[a], ids[b])

\* the unique constraint on monthly_archives.archive_month
MonthTaken(month) == \E a \in DOMAIN archives : archives[a].archive_month = month

\* whether the store keeps an INSERT from referring to a missing player or a
\* row from placing one player twice is not decided by the handlers: both
\* outcomes are modelled (strict)
Insertable(ids, strict) ==
    strict => /\ \A k \in DOMAIN ids : SqlInt(ids[k]) \in PlayerIds
              /\ \A a, b \in DOMAIN ids : a # b => SqlInt(ids[a]) # SqlInt(ids[b])

\* the points a player holds now (NoInt: no such row)
Held(i) == IF i \in PlayerIds THEN players[i].points ELSE NoInt

ArchiveRow(r) ==
    [id |-> nextArchiveId, archive_month |-> SqlText(r.month),
     first_place_player_id |-> SqlInt(r.ids[1]), first_place_points |-> r.pts[1],
     second_place_player_id |-> SqlInt(r.ids[2]), second_place_points |-> r.pts[2],
     third_place_player_id |-> SqlInt(r.ids[3]), third_place_points |-> r.pts[3],
     held |-> [k \in 1..3 |-> Held(SqlInt(r.ids[k]))]]

\* the catch block of the handler
DuplicateMonth == IF impl = "pg" THEN "23505" ELSE "ER_DUP_ENTRY"
ArchiveErrorBuggy(code) == handleError("Failed to create archive")
ArchiveError(code) ==
    IF code = DuplicateMonth
    THEN Reject(400, "Archive for this month already exists")
    ELSE handleError("Failed to create archive")

\* server.js: the checks of the request and the SELECT of the three players
\* (the handler holds nothing of the store before its SELECT runs)
PgSelectArchive(s, in, dbOk) ==
    LET r == ArchiveRequest(in)
        found == {i \in PlayerIds : \E k \in 1..3 : i = SqlInt(r.ids[k])}
    IN
    /\ impl = "pg" /\ FirstLeft(s)
    /\ nextArchiveId <= MaxArchives
    /\ ArchiveFrame /\ UNCHANGED <<archives, nextArchiveId, champions, placed>>
    /\ ArchiveStep(s,
         IF Falsy(r.month) \/ \E k \in 1..3 : Falsy(r.ids[k])
         THEN Answers(r, Reject(400, "All fields are required"))
         ELSE IF HasDuplicate(r.ids)
         THEN Answers(r, Reject(400, "All three winners must be different players"))
         ELSE IF ~dbOk
         THEN Breaks(r, handleError("Failed to create archive"))
         ELSE IF \E k \in 1..3 : ~IsSqlInt(r.ids[k])
         THEN Answers(r, handleError("Failed to create archive"))
         ELSE IF Cardinality(found) # 3
         THEN Answers(r, Reject(400, "One or more players not found"))
         ELSE [r EXCEPT !.pc = "insert", !.free = ~MonthTaken(SqlText(r.month)),
                        !.pts = [k \in 1..3 |-> players[SqlInt(r.ids[k])].points]])

\* server.js: INSERT INTO monthly_archives, and the response
PgInsertArchive(s, dbOk, strict) ==
    LET r == areqs[s] IN
    /\ impl = "pg" /\ r.pc = "insert"
    /\ ArchiveFrame /\ UNCHANGED champions
    /\ IF ~dbOk
       THEN /\ ArchiveStep(s, Breaks(r, ArchiveError("other")))
            /\ UNCHANGED <<archives, nextArchiveId, placed>>
       ELSE IF ~Insertable(r.ids, strict)
       THEN /\ ArchiveStep(s, Answers(r, ArchiveError("other")))
            /\ UNCHANGED <<archives, nextArchiveId, placed>>
       ELSE IF MonthTaken(SqlText(r.month))
       THEN /\ ArchiveStep(s, [Answers(r, ArchiveError(DuplicateMonth))
                                    EXCEPT !.taken = TRUE])
            /\ UNCHANGED <<archives, nextArchiveId, placed>>
       ELSE /\ archives' = Put(archives, nextArchiveId, ArchiveRow(r))
            /\ nextArchiveId' = nextArchiveId + 1
            /\ placed' = placed \cup Places(ArchiveRow(r))
            /\ ArchiveStep(s, [Answers(r, Ok) EXCEPT !.made = nextArchiveId])

\* part_001: SELECT id, points FROM players WHERE id IN (?, ?, ?) and the
\* three players.find(p => p.id == ..); reading .points of a player that was
\* not found throws
MysqlSelectArchive(s, in, dbOk) ==
    LET r == ArchiveRequest(in) IN
    /\ impl = "mysql" /\ FirstLeft(s)
    /\ nextArchiveId <= MaxArchives
    /\ ArchiveFrame /\ UNCHANGED <<archives, nextArchiveId, champions, placed>>
    /\ ArchiveStep(s,
         IF ~dbOk
         THEN Breaks(r, handleError("Failed to create archive"))
         ELSE IF \E k \in 1..3 : r.ids[k].t = "undefined" \/ SqlInt(r.ids[k]) \notin PlayerIds
         THEN Answers(r, handleError("Failed to create archive"))
         ELSE [r EXCEPT !.pc = "insert", !.free = ~MonthTaken(SqlText(r.month)),
                        !.pts = [k \in 1..3 |-> players[SqlInt(r.ids[k])].points]])

\* part_001: INSERT INTO monthly_archives
MysqlInsertArchive(s, dbOk, strict) ==
    LET r == areqs[s] IN
    /\ impl = "mysql" /\ r.pc = "insert"
    /\ ArchiveFrame /\ UNCHANGED <<champions, placed>>
    /\ IF ~dbOk
       THEN /\ ArchiveStep(s, Breaks(r, ArchiveError("other")))
            /\ UNCHANGED <<archives, nextArchiveId>>
       ELSE IF r.month.t = "undefined" \/ ~Insertable(r.ids, strict)
       THEN /\ ArchiveStep(s, Answers(r, ArchiveError("other")))
            /\ UNCHANGED <<archives, nextArchiveId>>
       ELSE IF MonthTaken(SqlText(r.month))
       THEN /\ ArchiveStep(s, [Answers(r, ArchiveError(DuplicateMonth))
                                    EXCEPT !.taken = TRUE])
            /\ UNCHANGED <<archives, nextArchiveId>>
       ELSE /\ archives' = Put(archives, nextArchiveId, ArchiveRow(r))
            /\ nextArchiveId' = nextArchiveId + 1
            /\ ArchiveStep(s, [r EXCEPT !.pc = "update", !.made = nextArchiveId])

\* part_001: UPDATE players SET is_champion = TRUE WHERE id IN (?, ?, ?), and
\* the response
MysqlUpdateChampions(s, dbOk) ==
    LET r == areqs[s]
        ids == {SqlInt(r.ids[k]) : k \in 1..3}
    IN
    /\ impl = "mysql" /\ r.pc = "update"
    /\ ArchiveFrame /\ UNCHANGED <<archives, nextArchiveId>>
    /\ IF ~dbOk
       THEN /\ ArchiveStep(s, Breaks(r, ArchiveError("other")))
            /\ UNCHANGED <<champions, placed>>
       ELSE /\ champions' = champions \cup (ids \cap PlayerIds)
            /\ placed' = placed \cup ids
            /\ ArchiveStep(s, Answers(r, Ok))

\* what a delete-archive step leaves alone
DeleteFrame(op, id, dbOk, resp) ==
    /\ UNCHANGED <<impl, removed, reqs, nextArchiveId, champions, areqs, placed>>
    /\ StoreUnchanged /\ RegistryUnchanged
    /\ last' = Latest(op, <<id, dbOk>>, resp)

\* server.js: DELETE FROM monthly_archives WHERE archive_id = $1 RETURNING ..
PgDeleteArchive(id, dbOk) ==
    LET archiveId == ParseInt(id) IN
    /\ impl = "pg"
    /\ IF archiveId = NoInt
       THEN DeleteFrame("deleteArchive", id, dbOk, Reject(400, "Invalid archive ID"))
            /\ UNCHANGED archives
       ELSE IF ~dbOk
       THEN DeleteFrame("deleteArchive", id, dbOk, handleError("Failed to delete archive"))
            /\ UNCHANGED archives
       ELSE IF archiveId \notin DOMAIN archives
       THEN DeleteFrame("deleteArchive", id, dbOk, Reject(404, "Archive not found"))
            /\ UNCHANGED archives
       ELSE /\ archives' = Drop(archives, archiveId)
            /\ DeleteFrame("deleteArchive", id, dbOk, Ok)

\* part_001: DELETE FROM monthly_archives WHERE id = ?
MysqlDeleteArchive(id, dbOk) ==
    LET archiveId == SqlInt(id) IN
    /\ impl = "mysql"
    /\ IF ~dbOk
       THEN DeleteFrame("deleteArchive", id, dbOk, handleError("Failed to delete archive"))
            /\ UNCHANGED archives
       ELSE IF archiveId \notin DOMAIN archives
       THEN DeleteFrame("deleteArchive", id, dbOk, Reject(404, "Archive not found"))
            /\ UNCHANGED archives
       ELSE /\ archives' = Drop(archives, archiveId)
            /\ DeleteFrame("deleteArchive", id, dbOk, Ok)

(***************************************************************************)
(* SpecArchive: MaxInFlight create-archive handlers run concurrently over  *)
(* a store that holds three players, and archives are deleted.             *)
(***************************************************************************)
ArchiveInputs ==
    {<<Str(1), Num(1), Num(2), Num(3)>>,
     <<Str(2), Num(1), Num(2), Num(3)>>,
     <<Str(1), Num(1), Num(1), Num(2)>>,
     <<Str(1), Num(1), Str(1), Num(2)>>,
     <<Undefined, Num(1), Num(2), Num(3)>>,
     <<Str(1), Num(1), Num(2), Num(4)>>}

ArchiveIdParams == {Str(1), Str(2), Str(-1)}

ArchivePoints == <<MaxPoints, 10, 8>>

InitArchive ==
    /\ impl \in {"pg", "mysql"}
    /\ players = [i \in 1..3 |-> PlayerRow(Str(i), ArchivePoints[i])]
    /\ points0 = ArchivePoints
    /\ nextId = 4
    /\ matches = <<>>
    /\ removed = {}
    /\ reqs = [s \in {1} |-> Idle]
    /\ last = NoLast
    /\ archives = <<>>
    /\ nextArchiveId = 1
    /\ champions = {}
    /\ areqs = [s \in 1..MaxInFlight |-> NoArchiveRequest]
    /\ placed = {}
    /\ NoRegistry

ArchivesAnswered == \A s \in ArchiveSlots : areqs[s].pc \in {"idle", "done"}

NextArchive ==
    \/ \E s \in ArchiveSlots, in \in ArchiveInputs, dbOk \in BOOLEAN :
            PgSelectArchive(s, in, dbOk)
    \/ \E s \in ArchiveSlots, dbOk, strict \in BOOLEAN : PgInsertArchive(s, dbOk, strict)
    \/ \E s \in ArchiveSlots, in \in ArchiveInputs, dbOk \in BOOLEAN :
            MysqlSelectArchive(s, in, dbOk)
    \/ \E s \in ArchiveSlots, dbOk, strict \in BOOLEAN : MysqlInsertArchive(s, dbOk, strict)
    \/ \E s \in ArchiveSlots, dbOk \in BOOLEAN : MysqlUpdateChampions(s, dbOk)
    \/ ArchivesAnswered /\ \E id \in ArchiveIdParams, dbOk \in BOOLEAN :
            PgDeleteArchive(id, dbOk)
    \/ ArchivesAnswered /\ \E id \in ArchiveIdParams, dbOk \in BOOLEAN :
            MysqlDeleteArchive(id, dbOk)

SpecArchive == InitArchive /\ [][NextArchive]_vars

(***************************************************************************)
(* SpecSnapshot: one create-archive handler runs while a match between two *)
(* of the players is recorded and a player is removed.                     *)
(***************************************************************************)
SnapshotInputs == {<<Str(1), Num(1), Num(2), Num(3)>>}

InitSnapshot ==
    /\ impl \in {"pg", "mysql"}
    /\ players = [i \in 1..3 |-> PlayerRow(Str(i), ArchivePoints[i])]
    /\ points0 = ArchivePoints
    /\ nextId = 4
    /\ matches = <<>>
    /\ removed = {}
    /\ reqs = [s \in {1} |-> Idle]
    /\ last = NoLast
    /\ archives = <<>>
    /\ nextArchiveId = 1
    /\ champions = {}
    /\ areqs = [s \in {1} |-> NoArchiveRequest]
    /\ placed = {}
    /\ NoRegistry

NextSnapshot ==
    \/ \E s \in ArchiveSlots, in \in SnapshotInputs, dbOk \in BOOLEAN :
            PgSelectArchive(s, in, dbOk)
    \/ \E s \in ArchiveSlots, dbOk, strict \in BOOLEAN : PgInsertArchive(s, dbOk, strict)
    \/ \E s \in ArchiveSlots, in \in SnapshotInputs, dbOk \in BOOLEAN :
            MysqlSelectArchive(s, in, dbOk)
    \/ \E s \in ArchiveSlots, dbOk, strict \in BOOLEAN : MysqlInsertArchive(s, dbOk, strict)
    \/ \E s \in ArchiveSlots, dbOk \in BOOLEAN : MysqlUpdateChampions(s, dbOk)
    \/ \E dbOk, restrict \in BOOLEAN : PgRemovePlayer(Str(3), dbOk, restrict)
    \/ \E dbOk \in BOOLEAN : MysqlRemovePlayer(Str(3), dbOk)
    \/ \E s \in Slots : PgBeginMatch(s, <<Num(2), Num(1), Undefined, Undefined>>)
    \/ \E s \in Slots : MysqlBeginMatch(s, <<Num(2), Num(1), Undefined>>)
    \/ \E s \in Slots, dbOk \in BOOLEAN : PgLookupWinner(s, dbOk)
    \/ \E s \in Slots, dbOk \in BOOLEAN : PgLookupLoser(s, dbOk)
    \/ \E s \in Slots, dbOk \in BOOLEAN : PgCallRecordMatch(s, dbOk)
    \/ \E s \in Slots, dbOk \in BOOLEAN : PgFetchWinner(s, dbOk)
    \/ \E s \in Slots, dbOk \in BOOLEAN : PgFetchLoser(s, dbOk)
    \/ \E s \in Slots, dbOk \in BOOLEAN : MysqlCallRecordMatch(s, dbOk)
    \/ \E s \in Slots, dbOk \in BOOLEAN : MysqlFetchWinner(s, dbOk)
    \/ \E s \in Slots, dbOk \in BOOLEAN : MysqlFetchLoser(s, dbOk)

SpecSnapshot == InitSnapshot /\ [][NextSnapshot]_vars

(***************************************************************************)
(* Tournament winner badges: PATCH /api/admin/players/:id/tournament-winner *)
(* POST /api/admin/tournament-winners, DELETE /api/admin/tournament-winners *)
(* and DELETE /api/admin/tournament-winners/:id                            *)
(***************************************************************************)
MaxBadges == 2
MaxDays == 2

\* tournamentName = 'Tournament'
DefaultTournamentName == Str(-2)

\* a row of tournament_winners; tournament_date is the date of the insert
BadgeRow(playerId, tournamentName) ==
    [winner_id |-> nextWinnerId, player_id |-> playerId,
     tournament_name |-> SqlText(tournamentName), tournament_date |-> today]

\* the unique key (player_id, tournament_name, tournament_date)
BadgeKey(row) == <<row.player_id, row.tournament_name, row.tournament_date>>
BadgeExists(row) == \E w \in DOMAIN badges : BadgeKey(badges[w]) = BadgeKey(row)

\* the same request history as Latest, for the badge table
LatestBadge(op, req, resp) ==
    [op |-> op, req |-> req, before |-> badges, resp |-> resp, rows |-> <<>>]

\* what a badge request leaves alone
BadgeFrame ==
    /\ UNCHANGED <<impl, removed, reqs, today, nodeEnv, auth>> /\ StoreUnchanged
    /\ UNCHANGED <<archives, nextArchiveId, champions, areqs, placed>>

BadgeAnswer(op, req, resp) ==
    /\ last' = LatestBadge(op, req, resp)
    /\ UNCHANGED <<badges, nextWinnerId, flagged>>

\* INSERT INTO tournament_winners (player_id, tournament_name): the row, or
\* the error the store raises ("none" for no error).  Whether the table
\* refers to players is not decided by the handlers: both outcomes are
\* modelled (restrict).  The unique index is checked when the row is
\* inserted, a reference when the statement ends.
InsertError(row, restrict) ==
    IF BadgeExists(row) THEN "23505"
    ELSE IF restrict /\ row.player_id \notin PlayerIds THEN "23503"
    ELSE "none"

\* the catch block of POST /api/admin/tournament-winners
BadgeErrorBuggy(code) == handleError("Failed to add tournament winner")
BadgeError(code) ==
    IF code = "23505"
    THEN Reject(400, "Tournament winner entry already exists")
    ELSE handleError("Failed to add tournament winner")

\* the request bodies tried: <<playerId, playerName, tournamentName>>
BadgeInputs ==
    {<<Num(1), Undefined, Undefined>>, <<Str(1), Undefined, DefaultTournamentName>>,
     <<Num(2), Undefined, Str(-3)>>, <<Undefined, Str(1), Undefined>>,
     <<Undefined, Str(-1), Undefined>>, <<Undefined, Undefined, Undefined>>,
     <<Num(9), Undefined, Undefined>>, <<Str(-1), Undefined, Undefined>>}

\* server.js: POST /api/admin/tournament-winners.  The SELECT by name and the
\* INSERT are taken in one step: a player removed between the two is the
\* request by id of a player that is not there.
PgAddBadge(in, dbOk, restrict) ==
    LET tournamentName == Default(in[3], DefaultTournamentName)
        byId == ~Falsy(in[1])
        byName == ~byId /\ ~Falsy(in[2])
        found == byName /\ NameTaken(SqlText(in[2]))
        finalPlayerId == IF byId THEN SqlInt(in[1]) ELSE IdOfName(SqlText(in[2]))
        row == BadgeRow(finalPlayerId, tournamentName)
        req == <<in, dbOk>>
    IN
    /\ impl = "pg" /\ BadgeFrame
    /\ IF ~byId /\ ~byName
       THEN BadgeAnswer("addBadge", req, Reject(400, "Player ID or name is required"))
       ELSE IF ~dbOk
       THEN BadgeAnswer("addBadge", req, BadgeError("other"))
       ELSE IF byName /\ ~found
       THEN BadgeAnswer("addBadge", req, Reject(404, "Player not found"))
       ELSE IF byId /\ ~IsSqlInt(in[1])
       THEN BadgeAnswer("addBadge", req, BadgeError("22P02"))
       ELSE IF InsertError(row, restrict) # "none"
       THEN BadgeAnswer("addBadge", req, BadgeError(InsertError(row, restrict)))
       ELSE /\ nextWinnerId <= MaxBadges
            /\ badges' = Put(badges, nextWinnerId, row)
            /\ nextWinnerId' = nextWinnerId + 1
            /\ last' = LatestBadge("addBadge", req, Ok)
            /\ UNCHANGED flagged

\* the request bodies tried: <<isTournamentWinner, tournamentName>>
PatchInputs ==
    {<<Num(1), Undefined>>, <<Num(1), Str(-3)>>, <<Undefined, Undefined>>,
     <<Num(0), Undefined>>}

\* server.js: PATCH /api/admin/players/:id/tournament-winner
PgPatchBadge(id, in, dbOk, restrict) ==
    LET playerId == ParseInt(id)
        tournamentName == Default(in[2], DefaultTournamentName)
        row == BadgeRow(playerId, tournamentName)
        req == <<id, in, dbOk>>
    IN
    /\ impl = "pg" /\ BadgeFrame
    /\ IF playerId = NoInt
       THEN BadgeAnswer("patchBadge", req, Reject(400, "Invalid player ID"))
       ELSE IF ~dbOk
       THEN BadgeAnswer("patchBadge", req,
                        handleError("Failed to update tournament winner status"))
       ELSE IF ~Falsy(in[1])
       THEN \* ON CONFLICT (player_id, tournament_name, tournament_date) DO NOTHING
            IF InsertError(row, restrict) = "23505"
            THEN BadgeAnswer("patchBadge", req, Ok)
            ELSE IF InsertError(row, restrict) = "23503"
            THEN BadgeAnswer("patchBadge", req,
                             handleError("Failed to update tournament winner status"))
            ELSE /\ nextWinnerId <= MaxBadges
                 /\ badges' = Put(badges, nextWinnerId, row)
                 /\ nextWinnerId' = nextWinnerId + 1
                 /\ last' = LatestBadge("patchBadge", req, Ok)
                 /\ UNCHANGED flagged
       ELSE /\ badges' = [w \in DOMAIN badges \ BadgesOf(playerId) |-> badges[w]]
            /\ last' = LatestBadge("patchBadge", req, Ok)
            /\ UNCHANGED <<nextWinnerId, flagged>>

\* server.js: DELETE /api/admin/tournament-winners/:id
PgRemoveBadges(id, dbOk) ==
    LET playerId == ParseInt(id)
        req == <<id, dbOk>>
    IN
    /\ impl = "pg" /\ BadgeFrame
    /\ IF playerId = NoInt
       THEN BadgeAnswer("removeBadges", req, Reject(400, "Invalid player ID"))
       ELSE IF ~dbOk
       THEN BadgeAnswer("removeBadges", req,
                        handleError("Failed to remove tournament winner"))
       ELSE IF BadgesOf(playerId) = {}
       THEN BadgeAnswer("removeBadges", req, Reject(404, "Tournament winner not found"))
       ELSE /\ badges' = [w \in DOMAIN badges \ BadgesOf(playerId) |-> badges[w]]
            /\ last' = LatestBadge("removeBadges", req, Ok)
            /\ UNCHANGED <<nextWinnerId, flagged>>

\* server.js: DELETE /api/admin/tournament-winners
PgClearBadges(dbOk) ==
    /\ impl = "pg" /\ BadgeFrame
    /\ IF ~dbOk
       THEN BadgeAnswer("clearBadges", <<dbOk>>,
                        handleError("Failed to clear tournament winners"))
       ELSE /\ badges' = <<>>
            /\ last' = LatestBadge("clearBadges", <<dbOk>>, Ok)
            /\ UNCHANGED <<nextWinnerId, flagged>>

\* part_001: PATCH /api/admin/players/:id/tournament-winner, UPDATE players
\* SET is_tournament_winner = ? WHERE id = ?; an undefined parameter is
\* refused by the driver
MysqlPatchFlag(id, in, dbOk) ==
    LET playerId == SqlInt(id)
        req == <<id, in, dbOk>>
    IN
    /\ impl = "mysql" /\ BadgeFrame
    /\ IF ~dbOk \/ in[1].t = "undefined"
       THEN BadgeAnswer("patchBadge", req,
                        handleError("Failed to update tournament winner status"))
       ELSE /\ flagged' = IF playerId \notin PlayerIds THEN flagged
                          ELSE IF Falsy(in[1]) THEN flagged \ {playerId}
                          ELSE flagged \cup {playerId}
            /\ last' = LatestBadge("patchBadge", req, Ok)
            /\ UNCHANGED <<badges, nextWinnerId>>

\* the date of the store advances
NextDay ==
    /\ today < MaxDays
    /\ today' = today + 1
    /\ last' = NoLast
    /\ UNCHANGED <<impl, removed, reqs, nodeEnv, auth, badges, nextWinnerId, flagged>>
    /\ StoreUnchanged
    /\ UNCHANGED <<archives, nextArchiveId, champions, areqs, placed>>

(***************************************************************************)
(* SpecBadges: badges are added, updated, removed and cleared over a store *)
(* that holds three players.                                               *)
(***************************************************************************)
BadgeIdParams == {Str(1), Str(2), Str(-1)}

InitBadges ==
    /\ impl \in {"pg", "mysql"}
    /\ players = [i \in 1..3 |-> PlayerRow(Str(i), ArchivePoints[i])]
    /\ points0 = ArchivePoints
    /\ nextId = 4
    /\ matches = <<>>
    /\ removed = {}
    /\ reqs = [s \in {1} |-> Idle]
    /\ last = NoLast
    /\ archives = <<>>
    /\ nextArchiveId = 1
    /\ champions = {}
    /\ areqs = <<>>
    /\ placed = {}
    /\ NoRegistry

NextBadges ==
    \/ \E in \in BadgeInputs, dbOk, restrict \in BOOLEAN : PgAddBadge(in, dbOk, restrict)
    \/ \E id \in BadgeIdParams, in \in PatchInputs, dbOk, restrict \in BOOLEAN :
            PgPatchBadge(id, in, dbOk, restrict)
    \/ \E id \in BadgeIdParams, dbOk \in BOOLEAN : PgRemoveBadges(id, dbOk)
    \/ \E dbOk \in BOOLEAN : PgClearBadges(dbOk)
    \/ \E id \in BadgeIdParams, in \in PatchInputs, dbOk \in BOOLEAN :
            MysqlPatchFlag(id, in, dbOk)
    \/ NextDay

SpecBadges == InitBadges /\ [][NextBadges]_vars

(***************************************************************************)
(* SpecRoster: the leaderboard, the podium and the admin player list are   *)
(* read over a store that holds three players while badges are added and   *)
(* removed.                                                                *)
(***************************************************************************)
RosterInputs ==
    {<<Num(1), Undefined, Undefined>>, <<Num(1), Undefined, Str(-3)>>,
     <<Num(2), Undefined, Undefined>>}

NextRoster ==
    \/ \E in \in RosterInputs : PgAddBadge(in, TRUE, TRUE)
    \/ \E id \in {Str(1), Str(2)} : PgRemoveBadges(id, TRUE)
    \/ \E in \in PatchInputs : MysqlPatchFlag(Str(1), in, TRUE)
    \/ \E dbOk \in BOOLEAN : GetLeaderboard(dbOk)
    \/ \E dbOk \in BOOLEAN : GetTop3(dbOk)
    \/ \E dbOk \in BOOLEAN : GetAdminPlayers(dbOk)

SpecRoster == InitBadges /\ [][NextRoster]_vars

(***************************************************************************)
(* authenticateAdmin and POST /api/admin/login                             *)
(***************************************************************************)
\* the Authorization headers tried: none, "Bearer" followed by a token signed
\* with another secret, by an expired token, and by an unexpired token signed
\* with JWT_SECRET
Tokens == {"none", "forged", "expired", "valid"}

\* jwt.verify(token, JWT_SECRET)
VerifyBuggy(token) == TRUE
Verify(token) == token = "valid"

\* the routes declared with authenticateAdmin that write
AdminOps ==
    {"createPlayer", "removePlayer", "recordMatch", "createArchive", "deleteArchive",
     "addBadge", "patchBadge", "removeBadges", "clearBadges"}

\* authenticateAdmin: answers 401, or calls next() and the handler takes over
Authenticate(op, token) ==
    LET passed == token # "none" /\ Verify(token)
        resp == IF token = "none" THEN Reject(401, "No token provided")
                ELSE IF ~Verify(token) THEN Reject(401, "Invalid token")
                ELSE NoResp
    IN
    /\ auth' = [op |-> op, token |-> token, passed |-> passed]
    /\ last' = Latest("authenticate", <<op, token>>, resp)
    /\ UNCHANGED <<impl, removed, reqs, badges, nextWinnerId, flagged, today, nodeEnv>>
    /\ StoreUnchanged
    /\ UNCHANGED <<archives, nextArchiveId, champions, areqs, placed>>

\* next(): the handler of the route runs on the request the middleware let through
Admitted(op) == last.op = "authenticate" /\ auth.passed /\ auth.op = op

\* process.env.ADMIN_PASSWORD || 'admin123'
AdminPassword == Str(-5)
Passwords == {AdminPassword, Str(-1), Undefined}

\* POST /api/admin/login: rows holds the token of the response, if it has one
Login(password) ==
    LET denied == IF impl = "pg" THEN Reject(401, "Invalid password")
                  ELSE Resp(401, "false", "")
    IN
    /\ last' = IF StrictEq(password, AdminPassword)
               THEN [Latest("login", <<password>>, Ok) EXCEPT !.rows = <<"token">>]
               ELSE Latest("login", <<password>>, denied)
    /\ UNCHANGED <<impl, removed, reqs>> /\ StoreUnchanged /\ ArchivesUnchanged

(***************************************************************************)
(* SpecAuth: one client sends every writing request through the middleware *)
(* with each kind of Authorization header, each after the answer to the    *)
(* one before, over a store that holds one player or three.                *)
(***************************************************************************)
InitAuth ==
    /\ impl \in {"pg", "mysql"}
    /\ \E n \in {1, 3} :
        /\ players = [i \in 1..n |-> PlayerRow(Str(i), ArchivePoints[i])]
        /\ points0 = [i \in 1..n |-> ArchivePoints[i]]
        /\ nextId = n + 1
    /\ matches = <<>>
    /\ removed = {}
    /\ reqs = [s \in {1} |-> Idle]
    /\ last = NoLast
    /\ archives = <<>>
    /\ nextArchiveId = 1
    /\ champions = {}
    /\ areqs = [s \in {1} |-> NoArchiveRequest]
    /\ placed = {}
    /\ NoRegistry

AuthCreateInputs == {<<Str(2), Str(-1), Num(49), TRUE>>}
AuthArchiveInputs == {<<Str(1), Num(1), Num(2), Num(3)>>}
AuthPatchInputs == {<<Num(1), Undefined>>}

Quiet == Answered /\ ArchivesAnswered

\* the match, archive and badge rows inserted so far
MaxWrites == 2
Written == Cardinality(DOMAIN matches) + (nextArchiveId - 1) + (nextWinnerId - 1)

NextAuth ==
    \/ Quiet /\ Written < MaxWrites
             /\ \E op \in AdminOps, token \in Tokens : Authenticate(op, token)
    \/ Quiet /\ \E password \in Passwords : Login(password)
    \/ Admitted("createPlayer") /\ \E in \in AuthCreateInputs :
            PgCreatePlayer(in[1], in[2], in[3], in[4])
    \/ Admitted("createPlayer") /\ \E in \in AuthCreateInputs :
            MysqlCreatePlayer(in[1], in[2], in[3], in[4])
    \/ Admitted("removePlayer") /\ \E restrict \in BOOLEAN :
            PgRemovePlayer(Str(2), TRUE, restrict)
    \/ Admitted("removePlayer") /\ MysqlRemovePlayer(Str(2), TRUE)
    \/ Admitted("recordMatch") /\ \E s \in Slots :
            PgBeginMatch(s, <<Num(1), Num(2), Undefined, Undefined>>)
    \/ Admitted("recordMatch") /\ \E s \in Slots :
            MysqlBeginMatch(s, <<Num(1), Num(2), Undefined>>)
    \/ \E s \in Slots : PgLookupWinner(s, TRUE)
    \/ \E s \in Slots : PgLookupLoser(s, TRUE)
    \/ \E s \in Slots : PgCallRecordMatch(s, TRUE)
    \/ \E s \in Slots : PgFetchWinner(s, TRUE)
    \/ \E s \in Slots : PgFetchLoser(s, TRUE)
    \/ \E s \in Slots : MysqlCallRecordMatch(s, TRUE)
    \/ \E s \in Slots : MysqlFetchWinner(s, TRUE)
    \/ \E s \in Slots : MysqlFetchLoser(s, TRUE)
    \/ Admitted("createArchive") /\ \E s \in ArchiveSlots, in \in AuthArchiveInputs :
            PgSelectArchive(s, in, TRUE)
    \/ Admitted("createArchive") /\ \E s \in ArchiveSlots, in \in AuthArchiveInputs :
            MysqlSelectArchive(s, in, TRUE)
    \/ \E s \in ArchiveSlots, strict \in BOOLEAN : PgInsertArchive(s, TRUE, strict)
    \/ \E s \in ArchiveSlots, strict \in BOOLEAN : MysqlInsertArchive(s, TRUE, strict)
    \/ \E s \in ArchiveSlots : MysqlUpdateChampions(s, TRUE)
    \/ Admitted("deleteArchive") /\ PgDeleteArchive(Str(1), TRUE)
    \/ Admitted("deleteArchive") /\ MysqlDeleteArchive(Str(1), TRUE)
    \/ Admitted("addBadge") /\ PgAddBadge(<<Num(1), Undefined, Undefined>>, TRUE, TRUE)
    \/ Admitted("patchBadge") /\ \E in \in AuthPatchInputs :
            PgPatchBadge(Str(1), in, TRUE, TRUE)
    \/ Admitted("patchBadge") /\ \E in \in AuthPatchInputs :
            MysqlPatchFlag(Str(1), in, TRUE)
    \/ Admitted("removeBadges") /\ PgRemoveBadges(Str(1), TRUE)
    \/ Admitted("clearBadges") /\ PgClearBadges(TRUE)

SpecAuth == InitAuth /\ [][NextAuth]_vars

(***************************************************************************)
(* GET /api/health, the error handling middleware and the 404 handler      *)
(***************************************************************************)
\* error.message of an error raised by the store
StorageMessage == "error.message"

HealthFrame ==
    /\ UNCHANGED <<impl, removed, reqs>> /\ StoreUnchanged /\ ArchivesUnchanged

\* server.js: SELECT NOW(); the catch block answers with error: error.message
PgGetHealth(dbOk) ==
    /\ impl = "pg" /\ HealthFrame
    /\ last' = Latest("health", <<dbOk>>,
                      IF dbOk THEN Ok ELSE Resp(500, "false", StorageMessage))

\* part_001: answers without asking the store; the body has no success field
MysqlGetHealth ==
    /\ impl = "mysql" /\ HealthFrame
    /\ last' = Latest("health", <<>>, Resp(200, "absent", ""))

\* app.use((error, req, res, next) => ...): an error raised outside the try
\* blocks (a body that does not parse); part_001 names the field message
UnhandledError ==
    /\ HealthFrame
    /\ last' = Latest("unhandled", <<>>,
                      [Reject(500, "Internal server error") EXCEPT !.details = Details])

\* server.js: app.use((req, res) => ...), a path no route matches
NotFound ==
    /\ impl = "pg" /\ HealthFrame
    /\ last' = Latest("notFound", <<>>, Reject(404, "Endpoint not found"))

(***************************************************************************)
(* SpecHealth: the server runs in production or in development mode; the   *)
(* store fails under the health check, the listings and the badge routes.  *)
(***************************************************************************)
InitHealth ==
    /\ impl \in {"pg", "mysql"}
    /\ players = [i \in 1..3 |-> PlayerRow(Str(i), ArchivePoints[i])]
    /\ points0 = ArchivePoints
    /\ nextId = 4
    /\ matches = <<>>
    /\ removed = {}
    /\ reqs = [s \in {1} |-> Idle]
    /\ last = NoLast
    /\ archives = <<>>
    /\ nextArchiveId = 1
    /\ champions = {}
    /\ areqs = <<>>
    /\ placed = {}
    /\ badges = <<>> /\ nextWinnerId = 1 /\ flagged = {} /\ today = 1
    /\ nodeEnv \in {"production", "development"}
    /\ auth = NoAuth

NextHealth ==
    \/ \E dbOk \in BOOLEAN : PgGetHealth(dbOk)
    \/ MysqlGetHealth
    \/ UnhandledError
    \/ NotFound
    \/ \E dbOk \in BOOLEAN : GetLeaderboard(dbOk)
    \/ \E dbOk \in BOOLEAN : GetTop3(dbOk)
    \/ \E in \in BadgeInputs, dbOk \in BOOLEAN : PgAddBadge(in, dbOk, TRUE)
    \/ \E in \in PatchInputs, dbOk \in BOOLEAN : PgPatchBadge(Str(1), in, dbOk, TRUE)
    \/ \E dbOk \in BOOLEAN : PgClearBadges(dbOk)
    \/ \E in \in PatchInputs, dbOk \in BOOLEAN : MysqlPatchFlag(Str(1), in, dbOk)

SpecHealth == InitHealth /\ [][NextHealth]_vars

(***************************************************************************)
(* Properties.                                                             *)
(***************************************************************************)
\* the points of a request body denote an integer from 0 to 49 (none given:
\* the default)
PointsInRange(p) ==
    \/ p.t = "undefined"
    \/ /\ p.t = "number" \/ (p.t = "string" /\ p.v > 0)
       /\ p.v >= MinPoints /\ p.v <= MaxPoints

\* C1: every stored player's points are an integer from 0 to 49, in every
\* reachable state; a createPlayer request whose points are not in that range
\* is answered without success and leaves the players table as it was
\* (server.js answers a number out of range with 400 "Points must be
\* between 0 and 49" when the name passes).
C1_PointsAlwaysInRange ==
    /\ \A i \in PlayerIds :
        players[i].points \in Int /\ PointsAllowed(players[i].points)
    /\ (last.op = "createPlayer" /\ ~PointsInRange(last.req[3])) =>
        /\ players = last.before
        /\ last.resp.status # 200
        /\ (impl = "pg" /\ last.req[3].t = "number" /\ last.req[1].t = "string"
                /\ ~NameMissing(last.req[1]))
            => last.resp = Resp(400, "false", "Points must be between 0 and 49")

\* a request with points out of range was just refused while a stored player
\* holds the maximum after winning a match
C1_Witness ==
    /\ last.op = "createPlayer"
    /\ last.resp.error = "Points must be between 0 and 49"
    /\ \E k \in 1..Len(matches) :
        /\ matches[k].winner_id \in PlayerIds
        /\ players[matches[k].winner_id].points = MaxPoints

(***************************************************************************)
(* A record-match request that has been answered.                          *)
(***************************************************************************)
Answer200(r) == r.pc = "done" /\ r.resp.status = 200
\* answered without success, the store having answered every statement
Refused(r) == r.pc = "done" /\ r.resp.status # 200 /\ ~r.dbfail

\* both references are given and of a form the store takes
Referring(r) ==
    IF r.byName THEN ~Falsy(r.w) /\ ~Falsy(r.l)
    ELSE IsSqlInt(r.w) /\ IsSqlInt(r.l) /\ ~Falsy(r.w) /\ ~Falsy(r.l)

\* the player a reference resolves to, 0 for none
Resolve(byName, x) ==
    IF byName
    THEN IF NameTaken(SqlText(x)) THEN IdOfName(SqlText(x)) ELSE 0
    ELSE IF SqlInt(x) \in PlayerIds THEN SqlInt(x) ELSE 0

\* C2: a record-match request whose winner and loser resolve to the same
\* player is answered with a validation error (400) and appends no row,
\* whatever the form of the two identifiers.
C2_SamePlayerIsValidationError ==
    \A s \in Slots :
        LET r == reqs[s] IN
        (r.pc = "done" /\ ~r.dbfail /\ Referring(r)
            /\ Resolve(r.byName, r.w) # 0
            /\ Resolve(r.byName, r.w) = Resolve(r.byName, r.l))
        => (r.resp.status = 400 /\ r.appended = 0)

\* C3: a record-match request one of whose references resolves to no player
\* is answered with a not-found error (404) and appends no row.
C3_UnknownPlayerIsNotFound ==
    \A s \in Slots :
        LET r == reqs[s] IN
        (r.pc = "done" /\ ~r.dbfail /\ Referring(r)
            /\ (Resolve(r.byName, r.w) = 0 \/ Resolve(r.byName, r.l) = 0))
        => (r.resp.status = 404 /\ r.appended = 0)

\* C4: a record-match request that names, by id, a player removed before the
\* request arrived is answered without success and appends no row.
C4_RemovedPlayerCannotPlay ==
    \A s \in Slots :
        LET r == reqs[s] IN
        (r.pc = "done" /\ r.gone) => (r.resp.status # 200 /\ r.appended = 0)

\* part_001 has answered such a request: the winner's row is still there,
\* inactive, the loser is active, and the store answered every statement
C4_Witness ==
    \E s \in Slots :
        LET r == reqs[s] IN
        /\ impl = "mysql" /\ r.pc = "done" /\ r.gone /\ ~r.dbfail
        /\ SqlInt(r.w) \in PlayerIds /\ ~players[SqlInt(r.w)].active
        /\ SqlInt(r.l) \in PlayerIds /\ players[SqlInt(r.l)].active

(***************************************************************************)
(* The ledger replayed: the points every player has after the first k rows *)
(* of matches, each applied to the result of the one before.               *)
(***************************************************************************)
RECURSIVE Replay(_)
Replay(k) ==
    IF k = 0 THEN points0
    ELSE LET p == Replay(k - 1)
             m == matches[k]
         IN  [p EXCEPT ![m.winner_id] = Min(MaxPoints, p[m.winner_id] + m.delta),
                       ![m.loser_id] = Max(MinPoints, p[m.loser_id] - m.delta)]

\* the same, the rows taken in the order ord[1], ord[2], ...
RECURSIVE ReplayIn(_, _)
ReplayIn(ord, k) ==
    IF k = 0 THEN points0
    ELSE LET p == ReplayIn(ord, k - 1)
             m == matches[ord[k]]
         IN  [p EXCEPT ![m.winner_id] = Min(MaxPoints, p[m.winner_id] + m.delta),
                       ![m.loser_id] = Max(MinPoints, p[m.loser_id] - m.delta)]

\* the request of slot s has its row in the ledger
HasRow(r) ==
    \E k \in 1..Len(matches) :
        /\ Resolve(r.byName, r.w) # 0 => matches[k].winner_id = Resolve(r.byName, r.w)
        /\ Resolve(r.byName, r.l) # 0 => matches[k].loser_id = Resolve(r.byName, r.l)

\* C5: a record-match request answered with success has appended exactly one
\* row, with its winner and loser; one refused has appended none; and with
\* requests running concurrently the ledger has one row per committed
\* request and every player's points are those of applying its rows one
\* after the other in the order of the ledger.
C5_OneRowPerSuccessSerializable ==
    /\ \A s \in Slots :
        LET r == reqs[s] IN
        /\ r.appended \in {0, 1}
        /\ Answer200(r) => (r.appended = 1 /\ HasRow(r))
        /\ Refused(r) => r.appended = 0
    /\ \A i \in PlayerIds : players[i].points = Replay(Len(matches))[i]

\* two requests over disjoint pairs of players have both committed, neither
\* answered yet
C5_Witness ==
    /\ Len(matches) = 2
    /\ {matches[1].winner_id, matches[1].loser_id}
            \cap {matches[2].winner_id, matches[2].loser_id} = {}
    /\ \E s, t \in Slots :
        /\ s # t
        /\ reqs[s].pc = "fetch" /\ reqs[s].appended = 1
        /\ reqs[t].pc = "fetch" /\ reqs[t].appended = 1

\* C6: when concurrent record-match requests involve the same player, the
\* player's points are those of applying the committed matches one after the
\* other in some order: no update is lost.
C6_NoLostUpdate ==
    \E ord \in Permutations(1..Len(matches)) :
        \A i \in PlayerIds : players[i].points = ReplayIn(ord, Len(matches))[i]

\* two requests that share a player have both committed, neither answered
\* yet, and the shared player's points moved twice
C6_Witness ==
    /\ Len(matches) = 2
    /\ \E i \in PlayerIds :
        /\ i \in {matches[1].winner_id, matches[1].loser_id}
        /\ i \in {matches[2].winner_id, matches[2].loser_id}
        /\ players[i].points \notin {points0[i], points0[i] + 1, points0[i] - 1}
    /\ \E s, t \in Slots :
        /\ s # t
        /\ reqs[s].pc = "fetch" /\ reqs[s].appended = 1
        /\ reqs[t].pc = "fetch" /\ reqs[t].appended = 1

\* a step that appends a row: the row, and the points of its winner and loser
\* before and after the step
Appends == Len(matches') = Len(matches) + 1
NewRow == matches'[Len(matches')]
W0 == players[NewRow.winner_id].points
L0 == players[NewRow.loser_id].points
W1 == players'[NewRow.winner_id].points
L1 == players'[NewRow.loser_id].points
WinnerClamped == W0 + NewRow.delta > MaxPoints
LoserClamped == L0 - NewRow.delta < MinPoints

\* C7: recording a match is all or nothing.  No step of any request, seen by
\* whatever runs concurrently, moves points without appending the row of the
\* match or appends a row without moving the points of both its players (as
\* far as the range lets them move), and a call the store fails leaves
\* points and ledger as they were.
C7_AllOrNothing ==
    [][/\ Len(matches') \in {Len(matches), Len(matches) + 1}
       /\ SubSeq(matches', 1, Len(matches)) = matches
       /\ ~Appends =>
            \A i \in PlayerIds \cap DOMAIN players' :
                players'[i].points = players[i].points
       /\ Appends =>
            /\ DOMAIN players' = PlayerIds
            /\ {NewRow.winner_id, NewRow.loser_id} \subseteq PlayerIds
            /\ \A i \in PlayerIds \ {NewRow.winner_id, NewRow.loser_id} :
                    players'[i].points = players[i].points
            /\ W1 >= W0 /\ (W0 < MaxPoints => W1 > W0)
            /\ L1 <= L0 /\ (L0 > MinPoints => L1 < L0)
       /\ \A s \in Slots :
            (reqs[s].pc = "call" /\ reqs'[s].dbfail) =>
                (matches' = matches /\ players' = players)
      ]_vars

\* the store failed the call of one request and left nothing behind, while
\* another request, committed, is between its two reads of the players
C7_Witness ==
    \E s, t \in Slots :
        /\ s # t
        /\ reqs[s].pc = "done" /\ reqs[s].dbfail /\ reqs[s].appended = 0
        /\ reqs[t].pc = "fetch" /\ reqs[t].appended = 1 /\ reqs[t].gotW
        /\ Len(matches) = 1

\* C8 as stated: after a recorded match with delta d the winner has
\* min(49, w + d) and the loser max(0, l - d); the sum of the two is
\* conserved exactly when neither clamp applies; a winner at 49 stays at 49
\* while the loser still loses points.
C8_ConservedExactlyWhenUnclamped ==
    [][Appends =>
        /\ W1 = Min(MaxPoints, W0 + NewRow.delta)
        /\ L1 = Max(MinPoints, L0 - NewRow.delta)
        /\ (W1 + L1 = W0 + L0) <=> (~WinnerClamped /\ ~LoserClamped)
        /\ W0 = MaxPoints => (W1 = MaxPoints /\ (L0 > MinPoints => L1 < L0))
      ]_vars

\* C8, amended: after a recorded match with delta d the winner has
\* min(49, w + d) and the loser max(0, l - d); the sum of the two is
\* conserved when neither clamp applies and changes when exactly one
\* applies; a winner at 49 stays at 49 while a loser above 0 still loses
\* points.
C8_PointsAfterMatch ==
    [][Appends =>
        /\ W1 = Min(MaxPoints, W0 + NewRow.delta)
        /\ L1 = Max(MinPoints, L0 - NewRow.delta)
        /\ (~WinnerClamped /\ ~LoserClamped) => W1 + L1 = W0 + L0
        /\ (WinnerClamped # LoserClamped) => W1 + L1 # W0 + L0
        /\ W0 = MaxPoints => (W1 = MaxPoints /\ (L0 > MinPoints => L1 < L0))
      ]_vars

\* server.js has recorded a match of a winner at 49 against a loser at 0:
\* both clamps applied and the sum is what it was
C8_Witness ==
    /\ impl = "pg"
    /\ \E k \in 1..Len(matches) :
        /\ matches[k].winner_points_change = 0
        /\ matches[k].loser_points_change = 0
        /\ matches[k].winner_id \in PlayerIds
        /\ players[matches[k].winner_id].points = MaxPoints

\* C9: every stored player's tier is the tier of the player's points, after
\* createPlayer and after every recorded match, and the tier never falls as
\* points rise.
C9_TierIsTierOfPoints ==
    /\ \A i \in PlayerIds : players[i].tier = Tier(players[i].points)
    /\ \A p \in MinPoints..(MaxPoints - 1) : Tier(p) <= Tier(p + 1)

\* a match has moved a player into another tier
C9_Witness ==
    \E k \in 1..Len(matches) :
        LET i == matches[k].loser_id IN
        /\ i \in PlayerIds
        /\ players[i].tier # Tier(points0[i])
        /\ players[i].tier # matches[k].loser_tier_before

\* C10: the row of a match records the tier each player had before the
\* match and, as the history of either player shows it, the signed change
\* applied to that player; no later step alters a row.
C10_RowRecordsAppliedChange ==
    [][/\ SubSeq(matches', 1, Len(matches)) = matches
       /\ Appends =>
            /\ NewRow.winner_tier_before = players[NewRow.winner_id].tier
            /\ NewRow.loser_tier_before = players[NewRow.loser_id].tier
            /\ PointChange(NewRow, NewRow.winner_id) = W1 - W0
            /\ PointChange(NewRow, NewRow.loser_id) = L1 - L0
      ]_vars

\* C11: removing a player only flips the activity flag.  After a removal
\* answered with success the players table is the one before it but for the
\* flag of that player, every removed player still has a row, and every
\* match row still refers to rows of the players table.
C11_RemovalOnlyFlipsFlag ==
    /\ \A i \in removed : i \in PlayerIds /\ ~players[i].active
    /\ \A k \in 1..Len(matches) :
        {matches[k].winner_id, matches[k].loser_id} \subseteq PlayerIds
    /\ (last.op = "removePlayer" /\ last.resp.status = 200) =>
        /\ DOMAIN players = DOMAIN last.before
        /\ \A i \in PlayerIds :
            [players[i] EXCEPT !.active = TRUE]
                = [last.before[i] EXCEPT !.active = TRUE]

\* the name of a request body is missing, or empty once trimmed
NameBlank(name) ==
    \/ name.t \in {"undefined", "null"}
    \/ name.t = "string" /\ Trim(name) = Str(0)

\* C12: a createPlayer request whose name is missing or empty after trimming
\* is answered with a validation error (400) and adds no player row.
C12_BlankNameIsValidationError ==
    (last.op = "createPlayer" /\ last.req[4] /\ NameBlank(last.req[1])) =>
        (last.resp.status = 400 /\ players = last.before)

\* the name a createPlayer request asks the store to insert
NameAsked(name) == IF impl = "pg" THEN Trim(name) ELSE SqlText(name)

\* C13: no two active players have the same name; a createPlayer request,
\* otherwise acceptable, whose name is that of an existing player is answered
\* with the conflict error 400 "Player name already exists", which is not
\* the generic failure, and adds no player row.
C13_NamesUnique ==
    /\ \A i, j \in PlayerIds :
        (i # j /\ players[i].active /\ players[j].active)
            => players[i].name # players[j].name
    /\ (/\ last.op = "createPlayer" /\ last.req[4]
        /\ last.req[1].t = "string" /\ ~NameBlank(last.req[1])
        /\ last.req[2].t # "undefined" /\ PointsInRange(last.req[3])
        /\ \E i \in DOMAIN last.before :
                last.before[i].name = NameAsked(last.req[1]))
       => /\ last.resp.status = 400
          /\ last.resp.error = "Player name already exists"
          /\ last.resp # handleError("Failed to add player")
          /\ players = last.before

\* a second request for the name of a stored player was just refused
C13_Witness ==
    /\ last.op = "createPlayer"
    /\ last.resp.error = "Player name already exists"
    /\ \E i \in PlayerIds : players[i].name = NameAsked(last.req[1])
    /\ players = last.before

\* the order the leaderboard is specified to have, on two of its rows:
\* points descending, then wins descending, then name ascending
RanksBefore(r, q) ==
    \/ r.points > q.points
    \/ r.points = q.points /\ r.wins > q.wins
    \/ r.points = q.points /\ r.wins = q.wins /\ NameLess(r.name, q.name)

\* C14: the rows of the full leaderboard come in the order (points
\* descending, wins descending, name ascending), which is total: of two
\* distinct listed players exactly one ranks before the other, so two
\* players with equal points and equal wins are listed by name.
C14_LeaderboardTotalOrder ==
    (last.op = "leaderboard" /\ last.resp.status = 200) =>
        /\ \A a, b \in DOMAIN last.rows : a # b =>
              (RanksBefore(last.rows[a], last.rows[b])
                  # RanksBefore(last.rows[b], last.rows[a]))
        /\ \A a, b \in DOMAIN last.rows : a < b =>
              /\ RanksBefore(last.rows[a], last.rows[b])
              /\ last.rows[a].rank < last.rows[b].rank

\* the players of a listing, in the order listed
ListedIds(rows) == [k \in DOMAIN rows |-> rows[k].id]

\* C15: the podium lists the same players in the same order as the first
\* three entries of the full leaderboard over the same store (points
\* descending, then wins descending, then name ascending).
C15_Top3IsLeaderboardPrefix ==
    (last.op = "top3" /\ last.resp.status = 200) =>
        /\ \A ord \in LeaderboardOrders : ListedIds(last.rows) = Limit3(PlayersOf(ord))
        /\ \A a, b \in DOMAIN last.rows : a < b =>
              \/ last.rows[a].points > last.rows[b].points
              \/ /\ last.rows[a].points = last.rows[b].points
                 /\ WinCount(last.rows[a].id) > WinCount(last.rows[b].id)
              \/ /\ last.rows[a].points = last.rows[b].points
                 /\ WinCount(last.rows[a].id) = WinCount(last.rows[b].id)
                 /\ NameLess(last.rows[a].name, last.rows[b].name)

\* C16: every leaderboard entry reports as wins and losses the numbers of
\* match rows in which the player is winner and loser; its win_percentage is
\* exactly 0 when the player has no recorded games, and otherwise is
\* wins / (wins + losses) * 100 rounded to two decimals, i.e. the number of
\* hundredths nearest to the exact quotient, a half rounded up.
C16_WinPercentage ==
    (last.op = "leaderboard" /\ last.resp.status = 200) =>
        \A k \in DOMAIN last.rows :
            LET r == last.rows[k]
                w == Cardinality({m \in DOMAIN matches : matches[m].winner_id = r.id})
                l == Cardinality({m \in DOMAIN matches : matches[m].loser_id = r.id})
                h == r.win_percentage
            IN  /\ r.wins = w /\ r.losses = l
                /\ w + l = 0 => h = 0
                /\ w + l > 0 =>
                      \* |h / 100 - 100 * w / (w + l)| <= 1/200, the upper
                      \* half excluded
                      /\ 2 * h * (w + l) <= 2 * 10000 * w + (w + l)
                      /\ 2 * h * (w + l) > 2 * 10000 * w - (w + l)

\* a listed player with games whose percentage is not a whole number of
\* percent, and one without games
C16_Witness ==
    /\ last.op = "leaderboard" /\ last.resp.status = 200
    /\ \E k \in DOMAIN last.rows :
          /\ last.rows[k].wins = 2 /\ last.rows[k].losses = 1
          /\ last.rows[k].win_percentage = 6667
    /\ \E k \in DOMAIN last.rows :
          /\ last.rows[k].wins + last.rows[k].losses = 0
          /\ last.rows[k].win_percentage = 0

\* two of the three ids of a request identify the same player
SamePlayerTwice(ids) ==
    \E a, b \in DOMAIN ids : a # b /\ IsSqlInt(ids[a]) /\ SqlInt(ids[a]) = SqlInt(ids[b])

\* the places of an archive row, in order
PlacesOf(row) == <<row.first_place_player_id, row.second_place_player_id,
                   row.third_place_player_id>>

\* C17: a createArchive request in which two of firstId, secondId, thirdId
\* identify the same player is rejected with the error that the three must
\* be distinct and inserts no archive row; the three placed players of every
\* archive are pairwise distinct.
C17_PlacedPlayersDistinct ==
    /\ \A a \in DOMAIN archives : \A j, k \in 1..3 :
          j # k => PlacesOf(archives[a])[j] # PlacesOf(archives[a])[k]
    /\ \A s \in ArchiveSlots :
          (areqs[s].pc = "done" /\ ~areqs[s].dbfail /\ ~Falsy(areqs[s].month)
                /\ SamePlayerTwice(areqs[s].ids)) =>
              /\ areqs[s].resp.status = 400
              /\ areqs[s].resp.error = "All three winners must be different players"
              /\ areqs[s].made = 0

\* the archive rows of a month
RowsOfMonth(month) == {a \in DOMAIN archives : archives[a].archive_month = month}

AlreadyExists(resp) ==
    resp.status = 400 /\ resp.error = "Archive for this month already exists"

\* C18: there is at most one archive per month.  A createArchive request
\* whose INSERT finds an archive of its month is rejected with the error
\* that the archive already exists and inserts nothing; a request that
\* found the month free and was overtaken by a concurrent request for the
\* same month fails with that error, so that of the two exactly one
\* succeeds and one row is inserted.
C18_OneArchivePerMonth ==
    /\ \A a, b \in DOMAIN archives :
          a # b => archives[a].archive_month # archives[b].archive_month
    /\ \A s \in ArchiveSlots :
          LET r == areqs[s] IN
          /\ (r.pc = "done" /\ r.taken) => (AlreadyExists(r.resp) /\ r.made = 0)
          /\ (r.pc = "done" /\ r.free /\ r.resp.status # 500) =>
                \/ r.resp.status = 200 /\ r.made # 0 /\ ~r.taken
                \/ AlreadyExists(r.resp) /\ r.made = 0 /\ r.taken

\* a request that found its month free loses against a concurrent request
\* for the same month: it is answered that the archive exists, and the month
\* has the one row of the other request
C18_Witness ==
    \E s \in ArchiveSlots :
        /\ areqs[s].pc = "done" /\ areqs[s].free /\ areqs[s].taken
        /\ AlreadyExists(areqs[s].resp) /\ areqs[s].made = 0
        /\ Cardinality(RowsOfMonth(SqlText(areqs[s].month))) = 1

\* C19: a player placed in a successfully created archive is reported with
\* is_champion true in every later state, also after the archive is
\* deleted: deleteArchive removes the archive row and never retracts a
\* champion flag.
C19_ChampionForever == \A i \in placed \cap Listed : IsChampion(i)

\* C20: createArchive is atomic across reading the points and inserting
\* the row: the points every archive row records for a place are the points
\* that player held in the store at the moment the row was inserted, also
\* when a match is recorded or a player is removed while the request runs.
C20_SnapshotIsAtomic ==
    \A a \in DOMAIN archives :
        /\ archives[a].first_place_points = archives[a].held[1]
        /\ archives[a].second_place_points = archives[a].held[2]
        /\ archives[a].third_place_points = archives[a].held[3]

\* C21: no two tournament badge rows share the same (player, tournament
\* name, date).  Adding a badge that already exists adds no row, and the
\* add-badge operation reports it as a conflict error, distinct from the
\* generic failure.
C21_BadgesUnique ==
    /\ \A v, w \in DOMAIN badges : v # w => BadgeKey(badges[v]) # BadgeKey(badges[w])
    /\ \A w \in DOMAIN badges :
          (last.op \in {"addBadge", "patchBadge"}
                /\ \E v \in DOMAIN last.before :
                      BadgeKey(last.before[v]) = BadgeKey(badges[w])) =>
              w \in DOMAIN last.before
    /\ (last.op = "addBadge" /\ last.req[2]
            /\ \E v \in DOMAIN last.before :
                  /\ last.before[v].player_id =
                        (IF Falsy(last.req[1][1]) THEN last.req[1][2].v
                         ELSE last.req[1][1].v)
                  /\ last.before[v].tournament_name =
                        (IF last.req[1][3].t = "undefined" THEN DefaultTournamentName
                         ELSE last.req[1][3])
                  /\ last.before[v].tournament_date = today) =>
          /\ last.resp.status = 400
          /\ last.resp.error = "Tournament winner entry already exists"
          /\ last.resp.error # "Failed to add tournament winner"
          /\ badges = last.before

\* a badge that exists is added again and refused as a conflict
C21_Witness ==
    /\ last.op = "addBadge"
    /\ last.resp.error = "Tournament winner entry already exists"
    /\ badges = last.before /\ badges # <<>>

\* the tables the writing routes own
Tables == <<players, matches, archives, champions, badges, flagged>>

\* C22: every writing request that carries no valid bearer token is answered
\* with an authorization error (401) and leaves players, matches, archives
\* and badges as they were: the tables change only in the course of a
\* request whose token the middleware verified.  A login answers with a
\* token only if its password is the admin password.
C22_WritesNeedValidToken ==
    /\ [](last.op = "authenticate" /\ last.req[2] # "valid" =>
            /\ ~auth.passed
            /\ last.resp.status = 401
            /\ last.resp.error \in {"No token provided", "Invalid token"})
    /\ [][Tables' # Tables => auth.passed /\ auth.token = "valid"]_vars
    /\ [](last.op = "login" /\ last.rows # <<>> => last.req[1] = AdminPassword)

\* a request with a token that does not verify is answered over a store
\* that holds players, and a login has been given a token
C22_Witness ==
    /\ last.op = "authenticate" /\ last.req[2] \in {"forged", "expired"}
    /\ last.resp.status = 401 /\ players # <<>> /\ badges # <<>>
C22_WitnessLogin == last.op = "login" /\ last.rows # <<>>

\* the responses in sight: the latest one and those of the match handlers
Responses ==
    {resp \in {last.resp} \cup {reqs[s].resp : s \in Slots} : resp.status # 0}

\* C23: every response is an envelope with a boolean success field: a
\* success has success true, and every error response has success false
\* together with a string error field.
C23_Envelope ==
    \A resp \in Responses :
        /\ resp.success \in {"true", "false"}
        /\ resp.status = 200 => resp.success = "true"
        /\ resp.status # 200 => resp.success = "false" /\ resp.error # ""

\* C24: when the server does not run in development mode, no response of
\* any endpoint carries the message of the underlying storage error.
C24_NoStorageMessage ==
    nodeEnv # "development" =>
        \A resp \in Responses : resp.details # "message" /\ resp.error # StorageMessage

\* C25: the winner and loser snapshots (id, name, points, tier) that a
\* successful recordMatch returns are both present and equal the rows of
\* the two players right after that match's own update, whatever other
\* recordMatch or remove-player requests run at the same time.
C25_SnapshotsAreOwn ==
    \A s \in Slots :
        (reqs[s].pc = "done" /\ reqs[s].resp.status = 200) =>
            /\ reqs[s].winner # NoRow /\ reqs[s].loser # NoRow
            /\ reqs[s].winner = reqs[s].after[1]
            /\ reqs[s].loser = reqs[s].after[2]

\* C26: each player appears exactly once in the leaderboard, in the podium
\* and in the admin player list, however many badges the player holds, and
\* the ranks of the leaderboard are exactly 1..n for its n players.
C26_OneRowPerPlayer ==
    (last.op \in {"leaderboard", "top3", "adminPlayers"} /\ last.resp.status = 200) =>
        /\ \A a, b \in DOMAIN last.rows : a # b => last.rows[a].id # last.rows[b].id
        /\ last.op # "top3" => {last.rows[k].id : k \in DOMAIN last.rows} = Listed
        /\ last.op = "top3" => Len(last.rows) = Min(3, Cardinality(Listed))
        /\ last.op = "leaderboard" =>
              {last.rows[k].rank : k \in DOMAIN last.rows} = 1..Cardinality(Listed)

\* C27: every player placed in an archive row that exists is flagged
\* champion, in every state another request can observe and in every state
\* a failure leaves behind: createArchive never leaves a row inserted with a
\* placed player unflagged.
C27_PlacedAreFlagged ==
    \A a \in DOMAIN archives :
        \A i \in Places(archives[a]) \cap PlayerIds : IsChampion(i)
====
